---- MODULE Spec2Model ----
(***************************************************************************)
(* A model of the YASL compiler (areteCocoa/yasl_compiler): the nested     *)
(* symbol table (parser/symbol.rs), the command buffer and the recursive   *)
(* descent parser (parser/mod.rs) and the expression evaluator             *)
(* (parser/expression/mod.rs).                                             *)
(*                                                                         *)
(* Rust values are modelled as follows.  Option<T> is a sequence of length *)
(* 0 (None) or 1 (Some).  A String is a TLA+ string, built with \o where   *)
(* the code uses format!.  A struct is a record with the fields of the     *)
(* struct.  An assembly command is a record [pre, op, args]: the labels    *)
(* that prefix the line, the mnemonic and the operands, which the code     *)
(* joins with single spaces into one String.                               *)
(***************************************************************************)
EXTENDS Integers, Sequences, FiniteSets, TLC

VARIABLES
    pf_pc,      \* SpecPostfix: "infix" before the conversion, "postfix" after
    pf_in,      \* SpecPostfix: the infix sequence of Expression atoms
    pf_out,     \* SpecPostfix: Option of the postfix sequence
    ep_pc,      \* SpecExpr: position inside ExpressionParser::new / parse
    ep_tokens,  \* SpecExpr: the token run handed to ExpressionParser::new
    ep_table0,  \* SpecExpr: the symbol table handed to ExpressionParser::new
    ep,         \* SpecExpr: the ExpressionParser struct
    ep_last,    \* SpecExpr: what the last reduction step saw and did
    ep_result,  \* SpecExpr: Option of the Symbol returned by parse
    par_pc,     \* SpecParser: position inside Parser::parse
    par_tokens, \* SpecParser: the tokens handed to Parser::new_with_tokens
    par,        \* SpecParser: the Parser struct
    par_proc,   \* SpecParser: Option of the name of the top-level procedure
                \* whose declaration was read last
    par_params, \* SpecParser: the parameters [id, vt] of that procedure
    tab_pc,     \* SpecTable: "ready", "panicked" after a panic!, "gone" after
                \* exit returned None
    tab,        \* SpecTable: the SymbolTable
    tab_n,      \* SpecTable: the number of calls made so far
    tab_last,   \* SpecTable: Option of the last call [op, name, kind, result]
    tab_entered,\* SpecTable: the tables on which enter / enter_proc were
                \* called and whose scope is still open, outermost first
    cb_pc,      \* SpecBuilder: "open", "closed" after the last two pushes
    cb,         \* SpecBuilder: the CommandBuilder of the Parser
    cb_inner,   \* SpecBuilder: the CommandBuilder of an ExpressionParser
    cb_set,     \* SpecBuilder: the labels passed to cb.set_prefix, in order
    cb_inner_set, \* SpecBuilder: the labels passed to cb_inner.set_prefix
    sc_pc,      \* SpecScanner: "scanning" inside the loop of handle_line,
                \* "done" after it returned to read, "panicked" after a panic
    sc_calls,   \* SpecScanner: the number of read calls made on the Scanner
    sc_input,   \* SpecScanner: the characters of the String given to handle_line
    sc_i,       \* SpecScanner: the index of the next character of the loop
    sc,         \* SpecScanner: the Scanner struct (line_number, column_number)
    sc_loop,    \* SpecScanner: the locals of handle_line (token_state, lexeme, tokens)
    tb_pc,      \* SpecToken: "pushing" until push_char returns a token, then "token"
    tb_input,   \* SpecToken: the characters pushed to the TokenBuilder
    tb_i,       \* SpecToken: the index of the next character
    tb,         \* SpecToken: the TokenBuilder struct
    tb_lexeme_set, \* SpecToken: whether TokenBuilder::lexeme was called on
                \* the builder (a history variable, not a field)
    tb_out      \* SpecToken: Option of what the last push_char returned with a token

vars == <<pf_pc, pf_in, pf_out, ep_pc, ep_tokens, ep_table0, ep, ep_last, ep_result,
          par_pc, par_tokens, par, par_proc, par_params,
          tab_pc, tab, tab_n, tab_last, tab_entered,
          cb_pc, cb, cb_inner, cb_set, cb_inner_set,
          sc_pc, sc_calls, sc_input, sc_i, sc, sc_loop,
          tb_pc, tb_input, tb_i, tb, tb_lexeme_set, tb_out>>
pf_vars == <<pf_pc, pf_in, pf_out>>
ep_vars == <<ep_pc, ep_tokens, ep_table0, ep, ep_last, ep_result>>
par_vars == <<par_pc, par_tokens, par, par_proc, par_params>>
tab_vars == <<tab_pc, tab, tab_n, tab_last, tab_entered>>
cb_vars == <<cb_pc, cb, cb_inner, cb_set, cb_inner_set>>
sc_vars == <<sc_pc, sc_calls, sc_input, sc_i, sc, sc_loop>>
tb_vars == <<tb_pc, tb_input, tb_i, tb, tb_lexeme_set, tb_out>>

(***************************************************************************)
(* Option<T>                                                               *)
(***************************************************************************)
None == <<>>
Some(x) == <<x>>
is_some(o) == Len(o) > 0
is_none(o) == Len(o) = 0
unwrap(o) == o[1]

\* `let x = value;` before the rest of a function: the value is bound to
\* the parameter of Body.
Bind(value, Body(_)) == Body(value)

(***************************************************************************)
(* parser/symbol.rs                                                        *)
(***************************************************************************)

\* enum SymbolType { Procedure, Variable(SymbolValueType), Constant(SymbolValueType) }
\* with SymbolValueType "Int" or "Bool"; a Procedure carries no value type.
Procedure == [kind |-> "Procedure", vt |-> "-"]
Variable(vt) == [kind |-> "Variable", vt |-> vt]
Constant(vt) == [kind |-> "Constant", vt |-> vt]

\* SymbolTable::empty
empty ==
    [symbols |-> <<>>, old_table |-> None, register |-> None, register_n |-> 0,
     next_offset |-> 0, next_temp |-> 0, next_bool_temp |-> 0,
     next_if_temp |-> 0, next_while_temp |-> 0, proc_stack |-> <<>>]

\* SymbolTable::child_table: the new scope copies the counters and boxes self.
child_table(self) ==
    [symbols |-> <<>>, old_table |-> Some(self), register |-> None,
     register_n |-> self.register_n, next_offset |-> self.next_offset,
     next_temp |-> self.next_temp, next_bool_temp |-> self.next_bool_temp,
     next_if_temp |-> self.next_if_temp, next_while_temp |-> self.next_while_temp,
     proc_stack |-> self.proc_stack]

\* SymbolTable::add_symbol: symbols.insert(0, s)
add_symbol(self, s) == [self EXCEPT !.symbols = <<s>> \o self.symbols]

\* An add without the duplicate check.
add_panics_never(self, identifier) == FALSE

\* SymbolTable::add panics when the identifier is in the current scope.
add_panics(self, identifier) ==
    \E i \in 1..Len(self.symbols) : self.symbols[i].identifier = identifier

\* SymbolTable::add, when it does not panic.
add(self, identifier, t) ==
    LET pushed == IF t = Procedure
                  THEN [self EXCEPT !.proc_stack = Append(self.proc_stack, identifier)]
                  ELSE self
        o == self.next_offset
        bumped == IF t # Procedure
                  THEN [pushed EXCEPT !.next_offset = o + 4]
                  ELSE pushed
    IN  add_symbol(bumped,
                   [identifier |-> identifier, symbol_type |-> t,
                    register |-> self.register, register_n |-> 0, offset |-> o])

\* The first symbol of one scope's list with this identifier, if any.
RECURSIVE find_symbol(_, _, _)
find_symbol(symbols, name, i) ==
    IF i > Len(symbols) THEN None
    ELSE IF symbols[i].identifier = name THEN Some(symbols[i])
    ELSE find_symbol(symbols, name, i + 1)

\* A lookup that stops at the current scope.
get_current_scope(self, name) == find_symbol(self.symbols, name, 1)

\* SymbolTable::get: the current scope, then old_table.
RECURSIVE get(_, _)
get(self, name) ==
    LET here == find_symbol(self.symbols, name, 1)
    IN  IF is_some(here) THEN here
        ELSE IF is_some(self.old_table) THEN get(unwrap(self.old_table), name)
        ELSE None

\* SymbolTable::enter
enter(self) == child_table(self)

\* SymbolTable::enter_proc
enter_proc(self) ==
    [enter(self) EXCEPT !.register = Some("FP"), !.next_offset = 0, !.register_n = 0]

\* An exit that threads next_offset back like it threads proc_stack.
exit_keeping_offset(self) ==
    IF is_some(self.old_table)
    THEN Some([unwrap(self.old_table) EXCEPT !.proc_stack = self.proc_stack,
                                             !.next_offset = self.next_offset])
    ELSE None

\* SymbolTable::exit: the boxed old table with the proc_stack of self, or None.
exit(self) ==
    IF is_some(self.old_table)
    THEN Some([unwrap(self.old_table) EXCEPT !.proc_stack = self.proc_stack])
    ELSE None

\* format!("${}", n)
temp_name(n) == "$" \o ToString(n)

\* The Symbol that SymbolTable::temp returns.
temp_symbol(self, s_type) ==
    [identifier |-> temp_name(self.next_temp), symbol_type |-> s_type,
     offset |-> self.next_offset, register_n |-> 1, register |-> self.register]

\* SymbolTable::temp: the table after the call.
temp(self, s_type) ==
    add_symbol([self EXCEPT !.next_temp = self.next_temp + 1,
                            !.next_offset = self.next_offset + 4],
               temp_symbol(self, s_type))

\* SymbolTable::up_register
up_register(self) ==
    [self EXCEPT !.register_n = self.register_n + 1, !.next_offset = 0, !.next_temp = 0]

\* SymbolTable::bool_temp, if_temp, while_temp return the counter before the
\* increment; these are the tables after the call.
bool_temp(self) == [self EXCEPT !.next_bool_temp = self.next_bool_temp + 1]
if_temp(self) == [self EXCEPT !.next_if_temp = self.next_if_temp + 1]
while_temp(self) == [self EXCEPT !.next_while_temp = self.next_while_temp + 1]

\* SymbolTable::reset_offset
reset_offset(self) == [self EXCEPT !.next_offset = 0]

\* SymbolTable::current_proc
current_proc(self) ==
    IF Len(self.proc_stack) = 0 THEN "mainblock"
    ELSE self.proc_stack[Len(self.proc_stack)]

\* Symbol::is_temp: false for the empty identifier, otherwise whether the
\* first character of the identifier is "$".
is_temp(s) ==
    IF Len(s.identifier) = 0 THEN FALSE
    ELSE SubSeq(s.identifier, 1, 1) = "$"

\* Symbol::location
location(s) ==
    LET r == IF is_some(s.register) THEN unwrap(s.register)
             ELSE "R" \o ToString(s.register_n)
    IN  "+" \o ToString(s.offset) \o "@" \o r

\* The value a call returns when it ended in panic!(message).
Panicked(message) == [panicked |-> message]

\* Symbol::set_value_type panics on a Procedure.
set_value_type_panics(s) == s.symbol_type.kind \notin {"Variable", "Constant"}

\* Symbol::set_value_type: the symbol after the call.
set_value_type(s, v_type) ==
    IF set_value_type_panics(s)
    THEN Panicked("Attempted to set value type for a procedure!")
    ELSE [s EXCEPT !.symbol_type = [kind |-> s.symbol_type.kind, vt |-> v_type]]

(***************************************************************************)
(* parser/mod.rs: CommandBuilder                                           *)
(***************************************************************************)

\* A command String: mnemonic and operands, without a label.
Cmd(op, args) == [pre |-> <<>>, op |-> op, args |-> args]
\* A command String the code writes with the label inside the text.
LabelledCmd(label, op, args) == [pre |-> <<label>>, op |-> op, args |-> args]

\* CommandBuilder::new
CommandBuilder_new == [commands |-> <<>>, prefix |-> None]

\* CommandBuilder::push_command: format!("{} {}", prefix, command), prefix = None
push_command(self, command) ==
    [commands |-> Append(self.commands,
                         IF is_some(self.prefix)
                         THEN [command EXCEPT !.pre = <<unwrap(self.prefix)>> \o command.pre]
                         ELSE command),
     prefix |-> None]

\* CommandBuilder::push_useless
push_useless(self) == push_command(self, Cmd("movw", <<"R0", "R0">>))

\* A set_prefix that overwrites a pending prefix.
set_prefix_overwrite(self, prefix) == [self EXCEPT !.prefix = Some(prefix)]

\* CommandBuilder::set_prefix
set_prefix(self, prefix) ==
    [(IF is_some(self.prefix) THEN push_command(self, Cmd("movw", <<"R0", "R0">>)) ELSE self)
        EXCEPT !.prefix = Some(prefix)]

\* CommandBuilder::push_builder
RECURSIVE push_all(_, _, _)
push_all(self, cmds, i) ==
    IF i > Len(cmds) THEN self ELSE push_all(push_command(self, cmds[i]), cmds, i + 1)

push_builder(self, builder) ==
    LET pushed == push_all(self, builder.commands, 1)
    IN  IF is_some(builder.prefix) THEN set_prefix(pushed, unwrap(builder.prefix))
        ELSE pushed

(***************************************************************************)
(* parser/expression/mod.rs                                                *)
(***************************************************************************)

\* A Token is [token_type, lexeme]; a TokenType is the name of its variant.
Token(t, l) == [token_type |-> t, lexeme |-> l]

\* The decimal lexemes of the model and the value str::parse::<i32> gives them.
DecimalValue == ("0" :> 0) @@ ("1" :> 1) @@ ("2" :> 2) @@ ("3" :> 3)

\* type_for_string: Int when the lexeme parses as i32, Bool for true / false.
type_for_string(l) ==
    IF l \in DOMAIN DecimalValue THEN Some("Int")
    ELSE IF l = "true" THEN Some("Bool")
    ELSE IF l = "false" THEN Some("Bool")
    ELSE None

\* enum Expression { Operator(TokenType), Operand(OType), Combined(Symbol) }
\* enum OType { Static(String), Variable(String) }
Operator(tt) == [tag |-> "Operator", tt |-> tt]
Operand(otype, l) == [tag |-> "Operand", otype |-> otype, l |-> l]
Combined(s) == [tag |-> "Combined", s |-> s]

MulOps == {"Star", "Keyword(Div)", "Keyword(Mod)"}
AddOps == {"Plus", "Minus"}
RelOps == {"GreaterThan", "LessThan", "GreaterThanOrEqual", "LessThanOrEqual"}
EqOps == {"EqualTo", "NotEqualTo"}
BoolOps == {"Keyword(And)", "Keyword(Or)"}

\* Expression::from_token
from_token(t) ==
    LET tt == t.token_type
    IN  IF tt = "Number" THEN Some(Operand("Static", t.lexeme))
        ELSE IF tt \in MulOps \cup AddOps \cup RelOps \cup EqOps THEN Some(Operator(tt))
        ELSE IF tt \in BoolOps THEN Some(Operator(tt))
        ELSE IF tt = "Identifier" THEN Some(Operand("Variable", t.lexeme))
        ELSE IF tt = "Keyword(True)" THEN Some(Operand("Static", "true"))
        ELSE IF tt = "Keyword(False)" THEN Some(Operand("Static", "false"))
        ELSE None

is_op(e, class) == e.tag = "Operator" /\ e.tt \in class

\* impl PartialOrd for Expression: partial_cmp, row by row.
partial_cmp(self, other) ==
    IF is_op(self, MulOps) THEN
        IF is_op(other, MulOps) THEN Some("Less")
        ELSE IF is_op(other, AddOps) THEN Some("Greater")
        ELSE IF is_op(other, RelOps) THEN Some("Greater")
        ELSE IF is_op(other, EqOps) THEN Some("Greater")
        ELSE IF is_op(other, BoolOps) THEN Some("Greater")
        ELSE IF other.tag = "Operand" THEN Some("Greater")
        ELSE None
    ELSE IF is_op(self, AddOps) THEN
        IF is_op(other, MulOps) \/ other.tag = "Operand" THEN Some("Less")
        ELSE IF is_op(other, AddOps) THEN Some("Less")
        ELSE IF is_op(other, RelOps) THEN Some("Greater")
        ELSE IF is_op(other, EqOps) THEN Some("Greater")
        ELSE IF is_op(other, BoolOps) THEN Some("Greater")
        ELSE None
    ELSE IF is_op(self, RelOps) THEN
        IF is_op(other, MulOps) \/ other.tag = "Operand" THEN Some("Less")
        ELSE IF is_op(other, AddOps) THEN Some("Less")
        ELSE IF is_op(other, RelOps) THEN Some("Less")
        ELSE IF is_op(other, EqOps) THEN Some("Greater")
        ELSE IF is_op(other, BoolOps) THEN Some("Greater")
        ELSE None
    ELSE IF is_op(self, EqOps) THEN
        IF is_op(other, MulOps) \/ other.tag = "Operand" THEN Some("Less")
        ELSE IF is_op(other, AddOps) THEN Some("Less")
        ELSE IF is_op(other, RelOps) THEN Some("Less")
        ELSE IF is_op(other, EqOps) THEN Some("Less")
        ELSE IF is_op(other, BoolOps) THEN Some("Greater")
        ELSE None
    ELSE IF is_op(self, BoolOps) THEN Some("Less")
    ELSE IF self.tag = "Operand" THEN
        IF other.tag = "Operator" THEN Some("Greater")
        ELSE None
    ELSE None

\* `o > e` of PartialOrd: partial_cmp gives Some(Greater).
gt(o, e) == partial_cmp(o, e) = Some("Greater")

\* ExpressionParser::tokens_to_expressions
RECURSIVE tokens_to_expressions_from(_, _, _)
tokens_to_expressions_from(tokens, i, expressions) ==
    IF i > Len(tokens) THEN Some(expressions)
    ELSE LET e == from_token(tokens[i])
         IN  IF is_some(e)
             THEN tokens_to_expressions_from(tokens, i + 1, Append(expressions, unwrap(e)))
             ELSE None

tokens_to_expressions(tokens) == tokens_to_expressions_from(tokens, 1, <<>>)

\* The `while let Some(o) = op_stack.pop()` loop of expressions_to_postfix:
\* operators greater than e move to the output, the first that is not
\* greater is pushed back.
RECURSIVE pop_greater(_, _, _)
pop_greater(stack, op_stack, e) ==
    IF Len(op_stack) = 0 THEN [stack |-> stack, op_stack |-> op_stack]
    ELSE LET o == op_stack[Len(op_stack)]
         IN  IF gt(o, e)
             THEN pop_greater(Append(stack, o), SubSeq(op_stack, 1, Len(op_stack) - 1), e)
             ELSE [stack |-> stack, op_stack |-> op_stack]

\* The final `while let Some(o) = op_stack.pop() { stack.push(o) }`.
RECURSIVE drain(_, _)
drain(stack, op_stack) ==
    IF Len(op_stack) = 0 THEN stack
    ELSE drain(Append(stack, op_stack[Len(op_stack)]),
               SubSeq(op_stack, 1, Len(op_stack) - 1))

RECURSIVE expressions_to_postfix_from(_, _, _, _)
expressions_to_postfix_from(expressions, i, stack, op_stack) ==
    IF i > Len(expressions) THEN Some(drain(stack, op_stack))
    ELSE LET e == expressions[i]
         IN  IF e.tag = "Operand"
             THEN expressions_to_postfix_from(expressions, i + 1, Append(stack, e), op_stack)
             ELSE IF e.tag = "Operator"
             THEN LET r == pop_greater(stack, op_stack, e)
                  IN  expressions_to_postfix_from(expressions, i + 1, r.stack,
                                                  Append(r.op_stack, e))
             ELSE None

\* ExpressionParser::expressions_to_postfix
expressions_to_postfix(expressions) == expressions_to_postfix_from(expressions, 1, <<>>, <<>>)

\* ExpressionParser::new: None when a token is no expression atom.
ExpressionParser_new(table, tokens) ==
    Bind(tokens_to_expressions(tokens), LAMBDA expressions :
    IF is_none(expressions) THEN None
    ELSE
    Bind(expressions_to_postfix(unwrap(expressions)), LAMBDA postfix_exp :
    IF is_none(postfix_exp) THEN None
    ELSE Some([commands |-> CommandBuilder_new, expressions |-> unwrap(postfix_exp),
               stack |-> <<>>, table |-> table])))

\* ExpressionParser::push_command
ExpressionParser_push_command(self, command) ==
    [self EXCEPT !.commands = push_command(self.commands, command)]

\* The outcome of a step of the evaluator: the ExpressionParser after it and
\* "Ok", "Err" (the Result is Err) or "Panic" (panic! or unwrap of None).
Outcome(self, r) == [ep |-> self, r |-> r]

\* ExpressionParser::last_two_expressions: Err when the stack holds fewer than two.
last_two_expressions_fails(stack) == Len(stack) < 2

\* reduce_expression, lines 449-493: the Symbol of an operand.  A variable is
\* looked up (panic when unbound); a literal is moved into a fresh temp; a
\* Combined carries its symbol; an Operator panics.
materialize(self, e) ==
    IF e.tag = "Operand" /\ e.otype = "Variable" THEN
        LET x == get(self.table, e.l)
        IN  IF is_some(x) THEN [ep |-> self, r |-> "Ok", s |-> x]
            ELSE [ep |-> self, r |-> "Panic", s |-> None]
    ELSE IF e.tag = "Operand" THEN
        LET vt == type_for_string(e.l)
        IN  IF is_none(vt) THEN [ep |-> self, r |-> "Panic", s |-> None]
            ELSE LET t == temp_symbol(self.table, Variable(unwrap(vt)))
                     minted == [self EXCEPT !.table = temp(self.table, Variable(unwrap(vt)))]
                 IN  [ep |-> ExpressionParser_push_command(
                                 minted, Cmd("movw", <<"#" \o e.l, location(t)>>)),
                      r |-> "Ok", s |-> Some(t)]
    ELSE IF e.tag = "Combined" THEN [ep |-> self, r |-> "Ok", s |-> Some(e.s)]
    ELSE [ep |-> self, r |-> "Panic", s |-> None]

\* A variant of the check of lines 495-508 that lets every pair of symbols
\* pass; C8 is tested against it.
value_types_differ_never(s1, s2) == FALSE

\* reduce_expression, lines 495-508: both symbols carry a value type and the
\* two differ.
value_types_differ(s1, s2) ==
    /\ s1.symbol_type.kind \in {"Variable", "Constant"}
    /\ s2.symbol_type.kind \in {"Variable", "Constant"}
    /\ s1.symbol_type.vt # s2.symbol_type.vt

\* reduce_expression, lines 567-580: == or <> whose left symbol is a
\* Procedure or is of type Bool.
equality_rejected(t_type, s1) ==
    /\ t_type \in {"EqualTo", "NotEqualTo"}
    /\ \/ s1.symbol_type.kind = "Procedure"
       \/ s1.symbol_type.vt = "Bool"

\* reduce_expression, lines 615-625: and / or whose left symbol is a
\* Procedure or is of type Int.
bool_op_rejected(s1) ==
    \/ s1.symbol_type.kind = "Procedure"
    \/ s1.symbol_type.vt = "Int"

\* reduce_expression, lines 583-591
comparator(t_type) ==
    CASE t_type = "GreaterThan" -> "bgtr"
      [] t_type = "GreaterThanOrEqual" -> "bgeq"
      [] t_type = "EqualTo" -> "beq"
      [] t_type = "NotEqualTo" -> "bneq"
      [] t_type = "LessThanOrEqual" -> "bleq"
      [] t_type = "LessThan" -> "blss"

arith_op_always_subw(t_type) == "subw"

\* reduce_expression, lines 527-531
arith_op(t_type) ==
    CASE t_type = "Plus" -> "addw"
      [] t_type = "Minus" -> "subw"
      [] t_type = "Star" -> "mulw"
      [] t_type = "Keyword(Div)" -> "divw"

RECURSIVE push_commands(_, _, _)
push_commands(self, cmds, i) ==
    IF i > Len(cmds) THEN self
    ELSE push_commands(ExpressionParser_push_command(self, cmds[i]), cmds, i + 1)

push_stack(self, e) == [self EXCEPT !.stack = Append(self.stack, e)]

\* reduce_expression, lines 510-681, once s1 and s2 are known and their
\* value types agree: choose the destination and emit the operator's code.
reduce_with(self0, t_type, s1, s2) ==
    Bind(IF is_temp(s1) THEN s1 ELSE temp_symbol(self0.table, s1.symbol_type), LAMBDA dest :
    Bind(IF is_temp(s1) THEN self0
         ELSE ExpressionParser_push_command(
                 [self0 EXCEPT !.table = temp(self0.table, s1.symbol_type)],
                 Cmd("movw", <<location(s1), location(dest)>>)), LAMBDA self :
        IF t_type \in {"Plus", "Minus", "Star", "Keyword(Div)"} THEN
            Outcome(ExpressionParser_push_command(
                        push_stack(self, Combined(dest)),
                        Cmd(arith_op(t_type), <<location(s2), location(dest)>>)),
                    "Ok")
        ELSE IF t_type = "Keyword(Mod)" THEN
            LET temp1 == dest
                temp2 == temp_symbol(self.table, s2.symbol_type)
                minted == [self EXCEPT !.table = temp(self.table, s2.symbol_type)]
            IN  Outcome(push_stack(
                            push_commands(minted,
                                <<Cmd("divw", <<location(s2), location(temp1)>>),
                                  Cmd("mulw", <<location(s2), location(temp1)>>),
                                  Cmd("movw", <<location(s1), location(temp2)>>),
                                  Cmd("subw", <<location(temp1), location(temp2)>>),
                                  Cmd("movw", <<location(temp2), location(temp1)>>)>>, 1),
                            Combined(temp1)),
                        "Ok")
        ELSE IF t_type \in RelOps \cup EqOps THEN
            IF equality_rejected(t_type, s1) THEN Outcome(self, "Err")
            ELSE
            LET n == ToString(self.table.next_bool_temp)
                minted == [self EXCEPT !.table = bool_temp(self.table)]
                pushed == push_commands(minted,
                            <<Cmd("cmpw", <<location(s1), location(s2)>>),
                              Cmd(comparator(t_type), <<"$b_true" \o n>>),
                              Cmd("movw", <<"#0", location(dest)>>),
                              Cmd("jmp", <<"$b_end" \o n>>),
                              LabelledCmd("$b_true" \o n, "movw", <<"#1", location(dest)>>)>>, 1)
                prefixed == [pushed EXCEPT !.commands = set_prefix(pushed.commands, "$b_end" \o n)]
            IN  IF set_value_type_panics(dest) THEN Outcome(prefixed, "Panic")
                ELSE Outcome(push_stack(prefixed, Combined(set_value_type(dest, "Bool"))), "Ok")
        ELSE IF t_type \in BoolOps THEN
            IF bool_op_rejected(s1) THEN Outcome(self, "Err")
            ELSE
            LET o1 == IF t_type = "Keyword(And)" THEN "1" ELSE "0"
                o2 == IF t_type = "Keyword(And)" THEN "0" ELSE "1"
                n == ToString(self.table.next_bool_temp)
                minted == [self EXCEPT !.table = bool_temp(self.table)]
                pushed == push_commands(minted,
                            <<Cmd("cmpw", <<location(s1), o1>>),
                              Cmd("bneq", <<"$b_else" \o n>>),
                              Cmd("cmpw", <<location(s2), o1>>),
                              Cmd("bneq", <<"$b_else" \o n>>),
                              Cmd("movw", <<o1, location(dest)>>),
                              Cmd("jmp", <<"$b_end" \o n>>),
                              Cmd("movw", <<o2, location(dest)>>)>>, 1)
                prefixed == [pushed EXCEPT !.commands = set_prefix(pushed.commands, "$b_end" \o n)]
            IN  IF set_value_type_panics(dest) THEN Outcome(prefixed, "Panic")
                ELSE Outcome(push_stack(prefixed, Combined(set_value_type(dest, "Bool"))), "Ok")
        ELSE Outcome(self, "Panic")))

\* ExpressionParser::reduce_expression
reduce_expression(self, t_type) ==
    IF last_two_expressions_fails(self.stack) THEN
        Outcome([self EXCEPT !.stack = <<>>], "Panic")
    ELSE
    LET n == Len(self.stack)
        e1 == self.stack[n - 1]
        e2 == self.stack[n]
        popped == [self EXCEPT !.stack = SubSeq(self.stack, 1, n - 2)]
    IN  Bind(materialize(popped, e1), LAMBDA m1 :
        IF m1.r # "Ok" THEN Outcome(m1.ep, m1.r)
        ELSE
        Bind(materialize(m1.ep, e2), LAMBDA m2 :
        IF m2.r # "Ok" THEN Outcome(m2.ep, m2.r)
        ELSE IF value_types_differ(unwrap(m1.s), unwrap(m2.s)) THEN Outcome(m2.ep, "Err")
        ELSE reduce_with(m2.ep, t_type, unwrap(m1.s), unwrap(m2.s))))

\* ExpressionParser::handle_expression
handle_expression(self, e) ==
    IF e.tag = "Operand" /\ e.otype = "Variable" THEN
        LET s == get(self.table, e.l)
        IN  IF is_some(s) THEN
                IF unwrap(s).symbol_type = Procedure THEN Outcome(self, "Panic")
                ELSE Outcome(push_stack(self, e), "Ok")
            ELSE Outcome(self, "Panic")
    ELSE IF e.tag = "Operand" THEN Outcome(push_stack(self, e), "Ok")
    ELSE IF e.tag = "Operator" THEN reduce_expression(self, e.tt)
    ELSE Outcome(push_stack(self, e), "Ok")

\* ExpressionParser::f_symbol: the atom at index 0 of the stack becomes the
\* result symbol; the length of the stack is only compared with 0.
f_symbol(self) ==
    IF Len(self.stack) = 0 THEN [ep |-> self, r |-> "Panic", s |-> None]
    ELSE
    LET e == self.stack[1]
        removed == [self EXCEPT !.stack = Tail(self.stack)]
    IN  IF e.tag = "Combined" THEN [ep |-> removed, r |-> "Ok", s |-> Some(e.s)]
        ELSE IF e.tag = "Operand" /\ e.otype = "Static" THEN
            LET vt == type_for_string(e.l)
            IN  IF is_none(vt) THEN [ep |-> removed, r |-> "Panic", s |-> None]
                ELSE LET t == temp_symbol(removed.table, Variable(unwrap(vt)))
                         minted == [removed EXCEPT
                                       !.table = temp(removed.table, Variable(unwrap(vt)))]
                     IN  [ep |-> ExpressionParser_push_command(
                                     minted, Cmd("movw", <<"#" \o e.l, location(t)>>)),
                          r |-> "Ok", s |-> Some(t)]
        ELSE IF e.tag = "Operand" THEN
            LET symbol == get(removed.table, e.l)
            IN  IF is_some(symbol) THEN [ep |-> removed, r |-> "Ok", s |-> symbol]
                ELSE [ep |-> removed, r |-> "Panic", s |-> None]
        ELSE [ep |-> removed, r |-> "Panic", s |-> None]

\* One turn of the while loop of reduce_expression_stack.
reduce_step(self) ==
    handle_expression([self EXCEPT !.expressions = Tail(self.expressions)],
                      Head(self.expressions))

\* The while loop of reduce_expression_stack.
RECURSIVE reduce_loop(_)
reduce_loop(self) ==
    IF Len(self.expressions) = 0 THEN Outcome(self, "Ok")
    ELSE Bind(reduce_step(self), LAMBDA h : IF h.r = "Ok" THEN reduce_loop(h.ep) ELSE h)

\* ExpressionParser::reduce_expression_stack: r is "Ok" for Some(s), "Err"
\* for None.
reduce_expression_stack(self) ==
    Bind(reduce_loop([self EXCEPT !.table = up_register(self.table)]), LAMBDA looped :
    IF looped.r # "Ok" THEN [ep |-> looped.ep, r |-> looped.r, s |-> None]
    ELSE f_symbol(looped.ep))

\* parse, lines 304-322: the expression is one Operand.
is_single_operand(self) ==
    Len(self.expressions) = 1 /\ self.expressions[1].tag = "Operand"

parse_single_with_move(self) ==
    Bind(get(self.table, self.expressions[1].l), LAMBDA f :
        IF is_some(f)
        THEN [ep |-> ExpressionParser_push_command(
                        [self EXCEPT !.expressions = <<>>],
                        Cmd("movw", <<location(unwrap(f)), "+0@R1">>)),
              r |-> "Ok", s |-> f]
        ELSE [ep |-> self, r |-> "Panic", s |-> None])

parse_single(self) ==
    LET o == self.expressions[1]
        removed == [self EXCEPT !.expressions = <<>>]
    IN  IF o.otype = "Variable" THEN
            LET f == get(removed.table, o.l)
            IN  IF is_some(f) THEN [ep |-> removed, r |-> "Ok", s |-> f]
                ELSE [ep |-> removed, r |-> "Panic", s |-> None]
        ELSE
            LET vt == type_for_string(o.l)
            IN  IF is_none(vt) THEN [ep |-> removed, r |-> "Panic", s |-> None]
                ELSE [ep |-> ExpressionParser_push_command(
                                [removed EXCEPT
                                    !.table = temp(removed.table, Constant(unwrap(vt)))],
                                Cmd("movw", <<"#" \o o.l, "+0@R1">>)),
                      r |-> "Ok",
                      s |-> Some(temp_symbol(removed.table, Constant(unwrap(vt))))]

\* parse, lines 304-322, when the expression is not one Operand: a single
\* atom of another kind is removed and dropped.
parse_enter(self) ==
    IF Len(self.expressions) = 1 THEN [self EXCEPT !.expressions = <<>>] ELSE self

\* parse, lines 324-335, after reduce_expression_stack.
parse_finish(reduced) ==
    IF reduced.r = "Ok"
    THEN [ep |-> ExpressionParser_push_command(
                    reduced.ep, Cmd("movw", <<location(unwrap(reduced.s)), "+0@R1">>)),
          r |-> "Ok", s |-> reduced.s]
    ELSE reduced

\* ExpressionParser::parse: r is "Ok" with the result symbol s and the
\* commands ep.commands, or "Err", or "Panic".
ExpressionParser_parse(self) ==
    IF is_single_operand(self) THEN parse_single(self)
    ELSE parse_finish(reduce_expression_stack(parse_enter(self)))

(***************************************************************************)
(* SpecPostfix: expressions_to_postfix applied to infix sequences.         *)
(***************************************************************************)

\* The largest number of operands of an infix sequence.
MaxPfOperands == 3

PfOperands == {Operand("Static", l) : l \in DOMAIN DecimalValue}
PfOperators == {Operator(tt) : tt \in MulOps \cup AddOps \cup RelOps \cup EqOps \cup BoolOps}

\* The syntactically valid infix sequences of n operands.
RECURSIVE InfixSeqs(_)
InfixSeqs(n) ==
    IF n = 1 THEN {<<o>> : o \in PfOperands}
    ELSE {s \o <<op, o>> : s \in InfixSeqs(n - 1), op \in PfOperators, o \in PfOperands}

EpIdle ==
    /\ ep_pc = "idle"
    /\ ep_tokens = <<>>
    /\ ep_table0 = empty
    /\ ep = [commands |-> CommandBuilder_new, expressions |-> <<>>, stack |-> <<>>,
             table |-> empty]
    /\ ep_last = None
    /\ ep_result = None

PfIdle ==
    /\ pf_pc = "idle"
    /\ pf_in = <<>>
    /\ pf_out = None

ParIdle ==
    /\ par_pc = "idle"
    /\ par_tokens = <<>>
    /\ par = [tokens |-> <<>>, last_expression |-> None, last_token |-> None,
              symbol_table |-> empty, commands |-> CommandBuilder_new,
              declarations |-> <<>>, consumed |-> <<>>]
    /\ par_proc = None
    /\ par_params = {}

TabIdle ==
    /\ tab_pc = "idle"
    /\ tab = empty
    /\ tab_n = 0
    /\ tab_last = None
    /\ tab_entered = <<>>

CbIdle ==
    /\ cb_pc = "idle"
    /\ cb = CommandBuilder_new
    /\ cb_inner = CommandBuilder_new
    /\ cb_set = <<>>
    /\ cb_inner_set = <<>>

ScIdle ==
    /\ sc_pc = "idle"
    /\ sc_calls = 0
    /\ sc_input = <<>>
    /\ sc_i = 1
    /\ sc = [line_number |-> 0, column_number |-> 0]
    /\ sc_loop = [token_state |-> "Start", lexeme |-> "", tokens |-> <<>>]

TbIdle ==
    /\ tb_pc = "idle"
    /\ tb_input = <<>>
    /\ tb_i = 1
    /\ tb = [token_state |-> [state |-> "Start"], line |-> 0, column |-> 0,
             lexeme |-> <<>>]
    /\ tb_lexeme_set = FALSE
    /\ tb_out = None

PfInit ==
    /\ pf_pc = "infix"
    /\ pf_in \in UNION {InfixSeqs(n) : n \in 1..MaxPfOperands}
    /\ pf_out = None
    /\ EpIdle
    /\ ParIdle
    /\ TabIdle
    /\ CbIdle
    /\ ScIdle
    /\ TbIdle

\* ExpressionParser::new, line 290
PfConvert ==
    /\ pf_pc = "infix"
    /\ pf_out' = expressions_to_postfix(pf_in)
    /\ pf_pc' = "postfix"
    /\ UNCHANGED <<pf_in, ep_vars, par_vars, tab_vars, cb_vars, sc_vars, tb_vars>>

PfNext == PfConvert

SpecPostfix == PfInit /\ [][PfNext]_vars

(***************************************************************************)
(* The value of an expression over the integers (a truth value is 1 or 0). *)
(* A value is an Option: None when a division by zero occurs or the        *)
(* sequence is malformed.                                                  *)
(***************************************************************************)
Abs(x) == IF x < 0 THEN -x ELSE x
\* Integer division that truncates toward zero, as the machine's divw does.
TruncDiv(x, y) == IF (x < 0) = (y < 0) THEN Abs(x) \div Abs(y) ELSE -(Abs(x) \div Abs(y))
Truth(b) == IF b THEN 1 ELSE 0

ApplyOperator(tt, x, y) ==
    CASE tt = "Plus" -> Some(x + y)
      [] tt = "Minus" -> Some(x - y)
      [] tt = "Star" -> Some(x * y)
      [] tt = "Keyword(Div)" -> IF y = 0 THEN None ELSE Some(TruncDiv(x, y))
      [] tt = "Keyword(Mod)" -> IF y = 0 THEN None ELSE Some(x - TruncDiv(x, y) * y)
      [] tt = "GreaterThan" -> Some(Truth(x > y))
      [] tt = "LessThan" -> Some(Truth(x < y))
      [] tt = "GreaterThanOrEqual" -> Some(Truth(x >= y))
      [] tt = "LessThanOrEqual" -> Some(Truth(x <= y))
      [] tt = "EqualTo" -> Some(Truth(x = y))
      [] tt = "NotEqualTo" -> Some(Truth(x # y))
      [] tt = "Keyword(And)" -> Some(Truth(x # 0 /\ y # 0))
      [] tt = "Keyword(Or)" -> Some(Truth(x # 0 \/ y # 0))

ApplyOption(tt, x, y) ==
    IF is_none(x) \/ is_none(y) THEN None ELSE ApplyOperator(tt, unwrap(x), unwrap(y))

\* The value of a literal operand.
LiteralValue(l) ==
    IF l \in DOMAIN DecimalValue THEN Some(DecimalValue[l])
    ELSE IF l = "true" THEN Some(1)
    ELSE IF l = "false" THEN Some(0)
    ELSE None

\* The values the variables of the model hold when an expression is evaluated.
VarValue == ("a" :> 2) @@ ("b" :> 3) @@ ("f" :> 1) @@ ("c" :> 3)

\* The value of an operand: of a literal, or of a variable under VarValue.
OperandValue(e) ==
    IF e.otype = "Variable"
    THEN (IF e.l \in DOMAIN VarValue THEN Some(VarValue[e.l]) ELSE None)
    ELSE LiteralValue(e.l)

\* The value of a postfix sequence of operands and operators, computed with
\* a value stack.
RECURSIVE PostfixValueFrom(_, _, _)
PostfixValueFrom(postfix, i, values) ==
    IF i > Len(postfix) THEN (IF Len(values) = 1 THEN values[1] ELSE None)
    ELSE LET e == postfix[i]
         IN  IF e.tag = "Operand"
             THEN PostfixValueFrom(postfix, i + 1, Append(values, OperandValue(e)))
             ELSE IF Len(values) < 2 THEN None
             ELSE PostfixValueFrom(postfix, i + 1,
                    Append(SubSeq(values, 1, Len(values) - 2),
                           ApplyOption(e.tt, values[Len(values) - 1], values[Len(values)])))

PostfixValue(postfix) == PostfixValueFrom(postfix, 1, <<>>)

\* The precedence class of an operator, low to high: and/or, ==/<>,
\* </<=/>/>=, +/-, */div/mod.
PrecedenceClass(tt) ==
    IF tt \in BoolOps THEN 1
    ELSE IF tt \in EqOps THEN 2
    ELSE IF tt \in RelOps THEN 3
    ELSE IF tt \in AddOps THEN 4
    ELSE 5

\* The value of a valid infix sequence under the precedence classes with
\* left associativity: the root is the rightmost operator of the lowest
\* class that occurs.
RECURSIVE InfixValue(_)
InfixValue(infix) ==
    IF Len(infix) = 1 THEN LiteralValue(infix[1].l)
    ELSE
    LET ops == {i \in 1..Len(infix) : infix[i].tag = "Operator"}
        low == CHOOSE c \in 1..5 :
                  /\ \E i \in ops : PrecedenceClass(infix[i].tt) = c
                  /\ \A i \in ops : PrecedenceClass(infix[i].tt) >= c
        root == CHOOSE i \in ops :
                  /\ PrecedenceClass(infix[i].tt) = low
                  /\ \A j \in ops : PrecedenceClass(infix[j].tt) = low => j <= i
    IN  ApplyOption(infix[root].tt,
                    InfixValue(SubSeq(infix, 1, root - 1)),
                    InfixValue(SubSeq(infix, root + 1, Len(infix))))

\* C1: for every valid infix sequence, expressions_to_postfix yields a
\* postfix sequence whose value equals the value of the infix expression
\* under the precedence classes with left associativity inside a class.
C1_PostfixValueEqualsInfixValue ==
    pf_pc = "postfix" =>
        /\ is_some(pf_out)
        /\ PostfixValue(unwrap(pf_out)) = InfixValue(pf_in)

(***************************************************************************)
(* SpecExpr: ExpressionParser::new and ExpressionParser::parse, one action *)
(* per stage of parse and per turn of the loop of reduce_expression_stack.  *)
(***************************************************************************)

\* The largest number of operands of a well-formed token run.
MaxExprOperands == 3

ExprOperandTokens ==
    {Token("Identifier", "a"), Token("Identifier", "f"),
     Token("Number", "1"), Token("Keyword(True)", "true")}

ExprOperatorTokens ==
    {Token("Plus", "+"), Token("Keyword(Mod)", "mod"), Token("LessThan", "<"),
     Token("EqualTo", "=="), Token("Keyword(And)", "and")}

\* operand (operator operand)*
RECURSIVE ExprRuns(_)
ExprRuns(n) ==
    IF n = 1 THEN {<<o>> : o \in ExprOperandTokens}
    ELSE {s \o <<op, o>> : s \in ExprRuns(n - 1), op \in ExprOperatorTokens,
                           o \in ExprOperandTokens}

\* Token runs that are no complete expression, or name what is not a value.
MalformedRuns ==
    {<<>>, <<Token("Colon", ":")>>, <<Token("Identifier", "u")>>,
     <<Token("Identifier", "q")>>,
     <<Token("Identifier", "u"), Token("Plus", "+"), Token("Number", "1")>>,
     <<Token("Number", "1"), Token("Plus", "+"), Token("Identifier", "q")>>}
    \cup {<<op>> : op \in ExprOperatorTokens}
    \cup {<<o, op>> : o \in ExprOperandTokens, op \in ExprOperatorTokens}
    \cup {<<o1, o2>> : o1 \in ExprOperandTokens, o2 \in ExprOperandTokens}

\* The parser's table at its first expression: `var a : int; var b : int;
\* var f : boolean;` were added to the global scope (Parser::var).
TableFirst ==
    add(add(add(empty, "a", Variable("Int")), "b", Variable("Int")), "f", Variable("Bool"))

\* The parser's table at a later expression of the main block
\* (parse_expression_tokens, lines 1089 and 1097, ran once).
TableLater == reset_offset(bool_temp(TableFirst))

\* The parser's table inside `proc q; const c := 1; begin ...`
\* (token_proc, lines 523 and 532; token_const, line 404).
TableProc == add(add(enter_proc(TableFirst), "q", Procedure), "c", Constant("Int"))

ExprTables == {TableFirst, TableLater, TableProc}

EpInit ==
    /\ ep_pc = "new"
    /\ ep_tokens \in MalformedRuns \cup UNION {ExprRuns(n) : n \in 1..MaxExprOperands}
    /\ ep_table0 \in ExprTables
    /\ ep = [commands |-> CommandBuilder_new, expressions |-> <<>>, stack |-> <<>>,
             table |-> ep_table0]
    /\ ep_last = None
    /\ ep_result = None
    /\ PfIdle
    /\ ParIdle
    /\ TabIdle
    /\ CbIdle
    /\ ScIdle
    /\ TbIdle

EpPc(r) == IF r = "Ok" THEN "ok" ELSE IF r = "Err" THEN "err" ELSE "panic"

\* ExpressionParser::new
ENew ==
    /\ ep_pc = "new"
    /\ LET n == ExpressionParser_new(ep_table0, ep_tokens)
       IN  IF is_some(n)
           THEN ep' = unwrap(n) /\ ep_pc' = "parse"
           ELSE ep' = ep /\ ep_pc' = "none"
    /\ UNCHANGED <<ep_tokens, ep_table0, ep_last, ep_result, pf_vars, par_vars, tab_vars, cb_vars, sc_vars, tb_vars>>

\* parse, lines 304-322: the expression is a single operand.
ESingle ==
    /\ ep_pc = "parse"
    /\ is_single_operand(ep)
    /\ LET r == parse_single(ep)
       IN  /\ ep' = r.ep
           /\ ep_result' = r.s
           /\ ep_pc' = EpPc(r.r)
           /\ ep_last' = Some([step |-> "single", before |-> ep, r |-> r.r])
    /\ UNCHANGED <<ep_tokens, ep_table0, pf_vars, par_vars, tab_vars, cb_vars, sc_vars, tb_vars>>

\* parse, line 324, and reduce_expression_stack, line 346: up_register.
EEnter ==
    /\ ep_pc = "parse"
    /\ ~is_single_operand(ep)
    /\ ep' = [parse_enter(ep) EXCEPT !.table = up_register(ep.table)]
    /\ ep_pc' = "reduce"
    /\ ep_last' = Some([step |-> "enter", before |-> ep, r |-> "Ok"])
    /\ UNCHANGED <<ep_tokens, ep_table0, ep_result, pf_vars, par_vars, tab_vars, cb_vars, sc_vars, tb_vars>>

\* One turn of the loop of reduce_expression_stack: handle_expression.
EStep ==
    /\ ep_pc = "reduce"
    /\ Len(ep.expressions) > 0
    /\ LET h == reduce_step(ep)
       IN  /\ ep' = h.ep
           /\ ep_pc' = IF h.r = "Ok" THEN "reduce" ELSE EpPc(h.r)
           /\ ep_last' = Some([step |-> "handle", before |-> ep, r |-> h.r])
    /\ UNCHANGED <<ep_tokens, ep_table0, ep_result, pf_vars, par_vars, tab_vars, cb_vars, sc_vars, tb_vars>>

\* The end of reduce_expression_stack (f_symbol) and of parse (the move of
\* the result to +0@R1).
EFinish ==
    /\ ep_pc = "reduce"
    /\ Len(ep.expressions) = 0
    /\ LET r == parse_finish(f_symbol(ep))
       IN  /\ ep' = r.ep
           /\ ep_result' = r.s
           /\ ep_pc' = EpPc(r.r)
           /\ ep_last' = Some([step |-> "f_symbol", before |-> ep, r |-> r.r])
    /\ UNCHANGED <<ep_tokens, ep_table0, pf_vars, par_vars, tab_vars, cb_vars, sc_vars, tb_vars>>

EpNext == ENew \/ ESingle \/ EEnter \/ EStep \/ EFinish

SpecExpr == EpInit /\ [][EpNext]_vars

\* The stages above compose to ExpressionParser::parse.
EpAgreesWithParse ==
    ep_pc \in {"ok", "err", "panic"} =>
        LET r == ExpressionParser_parse(unwrap(ExpressionParser_new(ep_table0, ep_tokens)))
        IN  r.r = (IF ep_pc = "ok" THEN "Ok" ELSE IF ep_pc = "err" THEN "Err" ELSE "Panic")
            /\ r.s = ep_result /\ r.ep = ep

(***************************************************************************)
(* Support for the properties of the evaluator.                            *)
(***************************************************************************)

\* The postfix sequence ExpressionParser::new made of ep_tokens.
EpPostfix == unwrap(ExpressionParser_new(ep_table0, ep_tokens)).expressions

\* What the last step of the evaluator saw and did.
EpLast == unwrap(ep_last)

\* parse returned Ok and the result was the only atom of the expression:
\* the single-operand path, or f_symbol on a stack of one atom.
EpOkOneAtom ==
    /\ ep_pc = "ok"
    /\ \/ EpLast.step = "single"
       \/ EpLast.step = "f_symbol" /\ Len(EpLast.before.stack) = 1

\* The value type of an atom of the reduction stack.
AtomType(table, e) ==
    IF e.tag = "Combined" THEN Some(e.s.symbol_type.vt)
    ELSE IF e.tag = "Operand" /\ e.otype = "Variable" THEN
        LET s == get(table, e.l)
        IN  IF is_some(s) /\ unwrap(s).symbol_type # Procedure
            THEN Some(unwrap(s).symbol_type.vt) ELSE None
    ELSE IF e.tag = "Operand" THEN type_for_string(e.l)
    ELSE None

\* The operator typing rules: Int for + - * div mod over Int operands, Bool
\* for the relational operators and for and / or.
OperatorType(tt, t1, t2) ==
    IF tt \in MulOps \cup AddOps
    THEN (IF t1 = Some("Int") /\ t2 = Some("Int") THEN Some("Int") ELSE None)
    ELSE IF is_some(t1) /\ is_some(t2) THEN Some("Bool")
    ELSE None

\* The type derived bottom-up for a postfix sequence, with a type stack.
RECURSIVE DerivedTypeFrom(_, _, _, _)
DerivedTypeFrom(table, postfix, i, types) ==
    IF i > Len(postfix) THEN (IF Len(types) = 1 THEN types[1] ELSE None)
    ELSE LET e == postfix[i]
         IN  IF e.tag = "Operand"
             THEN DerivedTypeFrom(table, postfix, i + 1, Append(types, AtomType(table, e)))
             ELSE IF Len(types) < 2 THEN None
             ELSE DerivedTypeFrom(table, postfix, i + 1,
                    Append(SubSeq(types, 1, Len(types) - 2),
                           OperatorType(e.tt, types[Len(types) - 1], types[Len(types)])))

DerivedType(table, postfix) == DerivedTypeFrom(table, postfix, 1, <<>>)

(***************************************************************************)
(* The abstract machine that runs the emitted commands.  A memory operand  *)
(* is its text (+offset@base); memory maps the operands that were written  *)
(* to their values, and a cell never written has no value.                 *)
(***************************************************************************)

\* The operands that are numbers: #literal, and the 1 and 0 the and / or
\* code writes without #.
ImmediateValue ==
    ("#0" :> 0) @@ ("#1" :> 1) @@ ("#2" :> 2) @@ ("#3" :> 3) @@
    ("#true" :> 1) @@ ("#false" :> 0) @@ ("1" :> 1) @@ ("0" :> 0)

Read(mem, x) ==
    IF x \in DOMAIN ImmediateValue THEN Some(ImmediateValue[x])
    ELSE IF x \in DOMAIN mem THEN Some(mem[x])
    ELSE None

Write(mem, x, v) == (x :> v) @@ mem

\* The lines that carry the label as a prefix.
LabelLines(cmds, label) ==
    {i \in 1..Len(cmds) : \E k \in 1..Len(cmds[i].pre) : cmds[i].pre[k] = label}

BranchTaken(op, flag) ==
    CASE op = "jmp" -> TRUE
      [] op = "beq" -> flag = 0
      [] op = "bneq" -> flag # 0
      [] op = "bgtr" -> flag > 0
      [] op = "bgeq" -> flag >= 0
      [] op = "blss" -> flag < 0
      [] op = "bleq" -> flag <= 0

Sign(x) == IF x < 0 THEN -1 ELSE IF x > 0 THEN 1 ELSE 0

\* Runs cmds from line pc.  `ok` is FALSE when the machine cannot go on: an
\* operand without a value, a division by zero, a branch to a label that no
\* line or more than one line carries, or no fuel left.
RECURSIVE Run(_, _, _, _, _)
Run(cmds, pc, mem, flag, fuel) ==
    IF pc > Len(cmds) THEN [ok |-> TRUE, mem |-> mem]
    ELSE IF fuel = 0 THEN [ok |-> FALSE, mem |-> mem]
    ELSE
    LET c == cmds[pc]
        stop == [ok |-> FALSE, mem |-> mem]
    IN  IF c.op \in {"jmp", "beq", "bneq", "bgtr", "bgeq", "blss", "bleq"} THEN
            IF BranchTaken(c.op, flag) THEN
                LET lines == LabelLines(cmds, c.args[1])
                IN  IF Cardinality(lines) = 1
                    THEN Run(cmds, CHOOSE i \in lines : TRUE, mem, flag, fuel - 1)
                    ELSE stop
            ELSE Run(cmds, pc + 1, mem, flag, fuel - 1)
        ELSE
        LET x == Read(mem, c.args[1])
            y == Read(mem, c.args[2])
        IN  IF c.op = "movw" THEN
                IF is_none(x) THEN stop
                ELSE Run(cmds, pc + 1, Write(mem, c.args[2], unwrap(x)), flag, fuel - 1)
            ELSE IF c.op = "cmpw" THEN
                IF is_none(x) \/ is_none(y) THEN stop
                ELSE Run(cmds, pc + 1, mem, Sign(unwrap(x) - unwrap(y)), fuel - 1)
            ELSE IF c.op \in {"addw", "subw", "mulw", "divw"} THEN
                LET tt == CASE c.op = "addw" -> "Plus" [] c.op = "subw" -> "Minus"
                            [] c.op = "mulw" -> "Star" [] c.op = "divw" -> "Keyword(Div)"
                    v == ApplyOption(tt, y, x)
                IN  IF is_none(v) THEN stop
                    ELSE Run(cmds, pc + 1, Write(mem, c.args[2], unwrap(v)), flag, fuel - 1)
            ELSE stop

\* The machine runs every line of the evaluator's code at most once, since
\* the evaluator only emits branches to later lines.
Exec(cmds, mem) == Run(cmds, 1, mem, 0, Len(cmds))

\* Memory when an expression is evaluated: the home of every variable and
\* constant bound in the table holds its value.
BoundNames(table) ==
    {n \in DOMAIN VarValue : is_some(get(table, n)) /\ unwrap(get(table, n)).symbol_type # Procedure}

InitialMemory(table) ==
    [x \in {location(unwrap(get(table, n))) : n \in BoundNames(table)} |->
        VarValue[CHOOSE n \in BoundNames(table) : location(unwrap(get(table, n))) = x]]

\* The machine after the commands parse returned, and the expression's value.
EpExec == Exec(ep.commands.commands, InitialMemory(ep_table0))
EpValue == PostfixValue(EpPostfix)

(***************************************************************************)
(* Properties of the evaluator, checked under SpecExpr.                    *)
(***************************************************************************)

\* C4: after the evaluator succeeds on an expression (a single variable or a
\* single literal included), the machine that ran the emitted commands holds
\* the value of the expression at +0@R1.
C4_ValueAtTopOfScratch ==
    (EpOkOneAtom /\ is_some(EpValue) /\ EpExec.ok) =>
        Read(EpExec.mem, "+0@R1") = EpValue

\* C5: after the evaluator succeeds on an expression, the machine that ran
\* the emitted commands holds the value of the expression at the location()
\* of the result symbol, whatever next_offset was when evaluation began.
C5_ValueAtResultLocation ==
    (EpOkOneAtom /\ is_some(EpValue) /\ EpExec.ok) =>
        Read(EpExec.mem, location(unwrap(ep_result))) = EpValue

\* C6: whenever reduction reports success, the reduction stack held exactly
\* one atom when f_symbol took the result.
C6_SuccessHeldOneAtom ==
    (ep_pc = "ok" /\ EpLast.step = "f_symbol") => Len(EpLast.before.stack) = 1

\* Every operand of the expression has a value type: it is a literal, or a
\* variable or constant bound in the table.
EpOperandsTyped ==
    \A i \in 1..Len(EpPostfix) :
        EpPostfix[i].tag = "Operand" => is_some(AtomType(ep_table0, EpPostfix[i]))

\* C7: if reduction succeeds, the value type of the result symbol is the
\* type derived bottom-up by the operator typing rules.
C7_ResultTypeIsDerivedType ==
    (EpOkOneAtom /\ EpOperandsTyped) =>
        DerivedType(ep_table0, EpPostfix) = Some(unwrap(ep_result).symbol_type.vt)

\* The last step reduced an operator whose two operands were on the stack.
EpReducedOperator ==
    /\ is_some(ep_last)
    /\ EpLast.step = "handle"
    /\ Head(EpLast.before.expressions).tag = "Operator"
    /\ Len(EpLast.before.stack) >= 2

EpReducedTt == Head(EpLast.before.expressions).tt
EpReducedT1 ==
    AtomType(EpLast.before.table, EpLast.before.stack[Len(EpLast.before.stack) - 1])
EpReducedT2 ==
    AtomType(EpLast.before.table, EpLast.before.stack[Len(EpLast.before.stack)])

\* The operands of the reduced operator have value types, and the types
\* differ, or they are Bool under == / <>, or they are Int under and / or.
EpIllTypedReduction ==
    /\ EpReducedOperator
    /\ is_some(EpReducedT1) /\ is_some(EpReducedT2)
    /\ \/ EpReducedT1 # EpReducedT2
       \/ EpReducedTt \in EqOps /\ EpReducedT1 = Some("Bool")
       \/ EpReducedTt \in BoolOps /\ EpReducedT1 = Some("Int")

\* C8: reducing a binary operator fails, pushes no Combined atom and gives
\* no result symbol when its operands have different value types, when == or
\* <> is applied to Bool operands, and when and / or is applied to Int
\* operands.
C8_IllTypedReductionFails ==
    EpIllTypedReduction =>
        /\ EpLast.r = "Err"
        /\ ep_pc = "err"
        /\ ep_result = None
        /\ ep.stack = SubSeq(EpLast.before.stack, 1, Len(EpLast.before.stack) - 2)

\* A reduction of == whose operands have different value types was attempted
\* and failed.
C8_Witness ==
    /\ EpIllTypedReduction
    /\ ep_pc = "err"
    /\ EpReducedTt = "EqualTo"
    /\ EpReducedT1 # EpReducedT2

(***************************************************************************)
(* parser/mod.rs: Parser.  A rule returns [p, st]: the Parser after it and *)
(* "Continue", or "Success" / "Unexpected" / "Incorrect" for Done(..), or   *)
(* "Panic" when the rule panicked; a panic ends every rule that called it.  *)
(***************************************************************************)
RECURSIVE consts(_), vars_rule(_), procs(_), token_proc(_), block(_), params(_),
          statement(_), statement_tail(_), follow_expression(_)

R(p, st) == [p |-> p, st |-> st]

\* `_ => return ParserState::Done(ParserResult::Unexpected)`
Unexpected(r) == IF r.st = "Panic" THEN r ELSE R(r.p, "Unexpected")

\* Parser::new_with_tokens. The field consumed is a history of the token
\* buffer and no field of the struct: the tokens that were taken from the
\* front of tokens and not put back, in the order they were taken.
new_with_tokens(tokens) ==
    [tokens |-> tokens, last_expression |-> None, last_token |-> None,
     symbol_table |-> empty, commands |-> CommandBuilder_new, declarations |-> <<>>,
     consumed |-> <<>>]

\* Parser::next_token, when tokens is not empty.
next_token(p) ==
    [p EXCEPT !.tokens = Tail(p.tokens), !.last_token = Some(Head(p.tokens)),
              !.consumed = Append(p.consumed, Head(p.tokens))]

\* Parser::insert_last_token
insert_last_token(p) ==
    IF is_some(p.last_token)
    THEN [p EXCEPT !.tokens = <<unwrap(p.last_token)>> \o p.tokens, !.last_token = None,
                   !.consumed = SubSeq(p.consumed, 1, Len(p.consumed) - 1)]
    ELSE p

\* Parser::check_token
check_token(t, token) == IF token.token_type = t THEN "Continue" ELSE "Unexpected"

\* Parser::check: next_token panics when no token is left.
check(p, t) ==
    IF Len(p.tokens) = 0 THEN R(p, "Panic")
    ELSE R(next_token(p), check_token(t, Head(p.tokens)))

\* Parser::check_and_then_check (.0 of the pair)
check_and_then_check(p, t1, t2) ==
    Bind(check(p, t1), LAMBDA c :
    IF c.st = "Continue" \/ c.st = "Panic" THEN c
    ELSE check(insert_last_token(c.p), t2))

\* Parser::push_command
Parser_push_command(p, command) == [p EXCEPT !.commands = push_command(p.commands, command)]

\* Parser::push_prefix
push_prefix(p, prefix) == [p EXCEPT !.commands = set_prefix(p.commands, prefix)]

\* declarations.push
push_declaration(p, command) == [p EXCEPT !.declarations = Append(p.declarations, command)]

\* A comment line `: words`.
Comment(words) == Cmd(":", words)

\* The bytes of the String lexemes of the model, quotes included.
StringBytes == ("\"hi\"" :> <<34, 104, 105, 34>>) @@ ("\"\"" :> <<34, 34>>)

\* Parser::add_print_command: an outb for every character but the first and
\* the last, then a newline.
RECURSIVE add_print_from(_, _, _)
add_print_from(p, bytes, i) ==
    IF i > Len(bytes) THEN Parser_push_command(p, Cmd("outb", <<"#10">>))
    ELSE add_print_from(
            IF i # 1 /\ i # Len(bytes)
            THEN Parser_push_command(p, Cmd("outb", <<"#" \o ToString(bytes[i])>>))
            ELSE p,
            bytes, i + 1)

add_print_command(p, print_message) == add_print_from(p, StringBytes[print_message], 1)

\* Parser::token_const
token_const(p) ==
    Bind(check(p, "Keyword(Const)"), LAMBDA c1 :
    IF c1.st = "Panic" THEN c1
    ELSE IF c1.st # "Continue" THEN R(c1.p, "Incorrect")
    ELSE
    Bind(check(c1.p, "Identifier"), LAMBDA c2 :
    IF c2.st # "Continue" THEN Unexpected(c2)
    ELSE
    Bind(check(c2.p, "Assign"), LAMBDA c3 :
    IF c3.st # "Continue" THEN Unexpected(c3)
    ELSE
    Bind(check(c3.p, "Number"), LAMBDA c4 :
    IF c4.st # "Continue" THEN Unexpected(c4)
    ELSE
    LET id == unwrap(c2.p.last_token).lexeme
        l == unwrap(c4.p.last_token).lexeme
    IN  IF l \notin DOMAIN DecimalValue \cup {"true", "false"} THEN R(c4.p, "Panic")
        ELSE IF add_panics(c4.p.symbol_table, id) THEN R(c4.p, "Panic")
        ELSE
        LET t == IF l \in DOMAIN DecimalValue THEN "Int" ELSE "Bool"
            v == IF l \in DOMAIN DecimalValue THEN DecimalValue[l]
                 ELSE IF l = "true" THEN 1 ELSE 0
        IN  Bind(add(c4.p.symbol_table, id, Constant(t)), LAMBDA table :
            Bind(Cmd("movw", <<"#" \o ToString(v), location(unwrap(get(table, id)))>>),
                 LAMBDA c :
            check(IF current_proc(table) = "mainblock"
                  THEN push_declaration([c4.p EXCEPT !.symbol_table = table], c)
                  ELSE Parser_push_command([c4.p EXCEPT !.symbol_table = table], c),
                  "Semicolon")))))))

\* Parser::consts
consts(p) ==
    Bind(token_const(p), LAMBDA r :
    IF r.st = "Continue" THEN consts(r.p)
    ELSE IF r.st = "Incorrect" THEN R(insert_last_token(r.p), "Continue")
    ELSE Unexpected(r))

\* Parser::token_type
token_type(p) == check_and_then_check(p, "Keyword(Int)", "Keyword(Bool)")

\* Parser::var
var(p) ==
    Bind(check(p, "Keyword(Var)"), LAMBDA c1 :
    IF c1.st = "Panic" THEN c1
    ELSE IF c1.st # "Continue" THEN R(c1.p, "Incorrect")
    ELSE
    Bind(check(c1.p, "Identifier"), LAMBDA c2 :
    IF c2.st # "Continue" THEN Unexpected(c2)
    ELSE
    Bind(check(c2.p, "Colon"), LAMBDA c3 :
    IF c3.st # "Continue" THEN Unexpected(c3)
    ELSE
    Bind(token_type(c3.p), LAMBDA c4 :
    IF c4.st # "Continue" THEN Unexpected(c4)
    ELSE
    LET id == unwrap(c2.p.last_token).lexeme
        tt == unwrap(c4.p.last_token).token_type
        t == IF tt = "Keyword(Bool)" THEN "Bool" ELSE "Int"
    IN  IF add_panics(c4.p.symbol_table, id) THEN R(c4.p, "Panic")
        ELSE
        Bind(add(c4.p.symbol_table, id, Variable(t)), LAMBDA table :
        check(push_declaration([c4.p EXCEPT !.symbol_table = table],
                  Cmd("movw", <<"#0", location(unwrap(get(table, id)))>>)),
              "Semicolon"))))))

\* Parser::vars
vars_rule(p) ==
    Bind(var(p), LAMBDA r :
    IF r.st = "Continue" THEN vars_rule(r.p)
    ELSE IF r.st = "Incorrect" THEN R(insert_last_token(r.p), "Continue")
    ELSE Unexpected(r))

\* Parser::param: no symbol is added for the parameter.
param(p) ==
    Bind(check(p, "Identifier"), LAMBDA c1 :
    IF c1.st # "Continue" THEN Unexpected(c1)
    ELSE
    Bind(check(c1.p, "Colon"), LAMBDA c2 :
    IF c2.st # "Continue" THEN Unexpected(c2)
    ELSE
    Bind(token_type(c2.p), LAMBDA c3 :
    IF c3.st # "Continue" THEN Unexpected(c3)
    ELSE c3)))

\* Parser::follow_param
follow_param(p) ==
    Bind(check(p, "Comma"), LAMBDA c :
    IF c.st = "Panic" THEN c
    ELSE IF c.st # "Continue" THEN R(c.p, "Incorrect")
    ELSE params(c.p))

\* Parser::params
params(p) ==
    Bind(param(p), LAMBDA r1 :
    IF r1.st # "Continue" THEN Unexpected(r1)
    ELSE
    Bind(follow_param(r1.p), LAMBDA r2 :
    IF r2.st = "Continue" THEN r2
    ELSE IF r2.st = "Incorrect" THEN R(insert_last_token(r2.p), "Continue")
    ELSE Unexpected(r2)))

\* Parser::param_list
param_list(p) ==
    Bind(check(p, "LeftParen"), LAMBDA c1 :
    IF c1.st = "Panic" THEN c1
    ELSE IF c1.st # "Continue" THEN R(insert_last_token(c1.p), "Continue")
    ELSE
    Bind(params(c1.p), LAMBDA r :
    IF r.st # "Continue" THEN Unexpected(r)
    ELSE
    Bind(check(r.p, "RightParen"), LAMBDA c2 :
    IF c2.st = "Continue" THEN c2
    ELSE Unexpected(c2))))

\* Parser::parse_expression_tokens: the evaluator works on a clone of the
\* symbol table; the parser's own table only has bool_temp and reset_offset
\* called on it.
parse_expression_tokens(p, tokens) ==
    Bind(ExpressionParser_new(p.symbol_table, tokens), LAMBDA e :
    IF is_none(e) THEN R(p, "Unexpected")
    ELSE
    Bind(ExpressionParser_parse(unwrap(e)), LAMBDA r :
    IF r.r = "Panic" THEN R(p, "Panic")
    ELSE IF r.r = "Err" THEN R(p, "Unexpected")
    ELSE
    LET comment == Comment(<<"expression:">> \o [i \in 1..Len(tokens) |-> tokens[i].lexeme]
                           \o <<"">>)
    IN  R([p EXCEPT
              !.symbol_table = reset_offset(bool_temp(p.symbol_table)),
              !.commands = push_builder(push_command(p.commands, comment), r.ep.commands),
              !.last_expression = r.s],
          "Continue")))

\* The token types that end an expression (Parser::expression, lines 1055-1057).
ExpressionEnd ==
    {"Semicolon", "Keyword(Do)", "Keyword(Then)", "Keyword(End)", "RightParen",
     "Keyword(Else)"}

\* Parser::expression
expression(p) ==
    Bind(Parser_push_command(
            IF is_none(p.commands.prefix) THEN Parser_push_command(p, Cmd("", <<>>)) ELSE p,
            Cmd("movw", <<"SP", "R1">>)), LAMBDA p2 :
    Bind({i \in 1..Len(p.tokens) : p.tokens[i].token_type \in ExpressionEnd}, LAMBDA ends :
    IF ends = {}
    THEN R([p2 EXCEPT !.tokens = <<>>, !.consumed = p.consumed \o p.tokens], "Unexpected")
    ELSE
    Bind(CHOOSE i \in ends : \A j \in ends : i <= j, LAMBDA i :
    parse_expression_tokens(
        [p2 EXCEPT !.tokens = SubSeq(p.tokens, i, Len(p.tokens)),
                   !.consumed = p.consumed \o SubSeq(p.tokens, 1, i - 1)],
        SubSeq(p.tokens, 1, i - 1)))))

\* Parser::follow_expression
follow_expression(p) ==
    Bind(check(p, "Comma"), LAMBDA c :
    IF c.st = "Panic" THEN c
    ELSE IF c.st # "Continue" THEN R(insert_last_token(c.p), "Continue")
    ELSE
    Bind(expression(c.p), LAMBDA e :
    IF e.st # "Continue" THEN Unexpected(e)
    ELSE follow_expression(e.p)))

\* Parser::follow_prompt
follow_prompt(p) ==
    Bind(check(p, "Comma"), LAMBDA c :
    IF c.st = "Panic" THEN c
    ELSE IF c.st # "Continue" THEN R(insert_last_token(c.p), "Continue")
    ELSE check(c.p, "Identifier"))

\* Parser::follow_print
follow_print(p) ==
    Bind(check(p, "String"), LAMBDA c :
    IF c.st = "Panic" THEN c
    ELSE IF c.st = "Continue"
    THEN R(add_print_command(c.p, unwrap(c.p.last_token).lexeme), "Continue")
    ELSE
    Bind(expression(insert_last_token(c.p)), LAMBDA e :
    IF e.st # "Continue" THEN Unexpected(e)
    ELSE IF is_none(e.p.last_expression) THEN R(e.p, "Unexpected")
    ELSE R([Parser_push_command(
                Parser_push_command(e.p,
                    Cmd("outw", <<location(unwrap(e.p.last_expression))>>)),
                Cmd("outb", <<"#10">>))
             EXCEPT !.last_expression = None],
           "Continue")))

\* Parser::follow_id, lines 859-917: the assignment `id := expression`.
follow_id_assign(p, id) ==
    Bind(expression(p), LAMBDA e :
    IF e.st # "Continue" THEN Unexpected(e)
    ELSE IF is_none(e.p.last_expression) THEN R(e.p, "Panic")
    ELSE
    LET f == unwrap(e.p.last_expression)
        taken == [e.p EXCEPT !.last_expression = None]
    IN  Bind(get(e.p.symbol_table, id), LAMBDA found :
        IF is_none(found) THEN R(taken, "Panic")
        ELSE IF unwrap(found).symbol_type.kind # "Variable" THEN R(taken, "Unexpected")
        ELSE IF f.symbol_type.kind \in {"Variable", "Constant"}
                /\ unwrap(found).symbol_type.vt # f.symbol_type.vt
        THEN R(taken, "Unexpected")
        ELSE R(Parser_push_command(taken,
                   Cmd("movw", <<"+0@R1", location(unwrap(found))>>)),
               "Continue")))


call_before_end_missing(p, id) == insert_last_token(p)

\* The arm of follow_id for an invocation followed by `end`: the token is
\* put back and the call is pushed.
call_before_end(p, id) ==
    Parser_push_command(insert_last_token(p), Cmd("call", <<"#0", "$" \o id>>))

\* Parser::follow_id, lines 919-967: the call of a procedure.
follow_id_call(p, id) ==
    Bind(check(p, "LeftParen"), LAMBDA c1 :
    IF c1.st = "Panic" THEN c1
    ELSE IF c1.st = "Continue" THEN
        Bind(expression(c1.p), LAMBDA e :
        IF e.st # "Continue" THEN Unexpected(e)
        ELSE
        Bind(follow_expression(e.p), LAMBDA fe :
        IF fe.st # "Continue" THEN Unexpected(fe)
        ELSE check(fe.p, "RightParen")))
    ELSE
    Bind(check(insert_last_token(c1.p), "Semicolon"), LAMBDA c2 :
    IF c2.st = "Panic" THEN c2
    ELSE IF c2.st = "Continue"
    THEN R(insert_last_token(Parser_push_command(c2.p, Cmd("call", <<"#0", "$" \o id>>))),
           "Continue")
    ELSE
    Bind(check(insert_last_token(c2.p), "Keyword(End)"), LAMBDA c3 :
    IF c3.st = "Continue"
    THEN R(insert_last_token(call_before_end(c3.p, id)), "Continue")
    ELSE c3)))

\* Parser::follow_id
follow_id(p) ==
    Bind(check(p, "Assign"), LAMBDA c :
    IF c.st = "Panic" THEN c
    ELSE IF c.st = "Continue" THEN follow_id_assign(c.p, unwrap(p.last_token).lexeme)
    ELSE follow_id_call(insert_last_token(c.p), unwrap(p.last_token).lexeme))

\* Parser::follow_if
follow_if(p) ==
    Bind(check(p, "Keyword(Else)"), LAMBDA c :
    IF c.st = "Panic" THEN c
    ELSE IF c.st = "Continue" THEN statement(c.p)
    ELSE R(insert_last_token(c.p), "Continue"))

\* Parser::follow_begin
follow_begin(p) ==
    Bind(statement(p), LAMBDA s1 :
    IF s1.st = "Panic" THEN s1
    ELSE IF s1.st # "Continue" THEN check(insert_last_token(s1.p), "Keyword(End)")
    ELSE
    Bind(statement_tail(s1.p), LAMBDA t :
    IF t.st # "Continue" THEN Unexpected(t)
    ELSE check(t.p, "Keyword(End)")))

\* Parser::statement, lines 659-703: `if`.
statement_if(p0) ==
    LET i_temp == ToString(p0.symbol_table.next_if_temp)
    IN
    Bind(expression([p0 EXCEPT !.symbol_table = if_temp(p0.symbol_table)]), LAMBDA e :
    IF e.st # "Continue" THEN Unexpected(e)
    ELSE IF is_none(e.p.last_expression) THEN R(e.p, "Panic")
    ELSE
    Bind(check([e.p EXCEPT !.commands =
                  push_command(
                     push_command(e.p.commands,
                        Cmd("cmpw", <<"#0", location(unwrap(e.p.last_expression))>>)),
                     Cmd("beq", <<"$if_else" \o i_temp>>))],
               "Keyword(Then)"), LAMBDA c :
    IF c.st # "Continue" THEN Unexpected(c)
    ELSE
    Bind(statement(c.p), LAMBDA st :
    IF st.st # "Continue" THEN Unexpected(st)
    ELSE
    Bind(follow_if([st.p EXCEPT !.commands =
                      set_prefix(push_command(st.p.commands,
                                              Cmd("jmp", <<"$end_if" \o i_temp>>)),
                                 "$if_else" \o i_temp)]), LAMBDA f :
    IF f.st = "Continue"
    THEN R([f.p EXCEPT !.commands = set_prefix(f.p.commands, "$end_if" \o i_temp)],
           "Continue")
    ELSE f))))

\* Parser::statement, lines 705-746: `while`.
statement_while(p0) ==
    LET w_temp == ToString(p0.symbol_table.next_while_temp)
    IN
    Bind(expression(
            push_prefix(
                Parser_push_command(
                    [p0 EXCEPT !.symbol_table = while_temp(p0.symbol_table)],
                    Cmd("\n:", <<"while", "loop", w_temp>>)),
                "$b_while" \o w_temp)), LAMBDA e :
    IF e.st # "Continue" THEN Unexpected(e)
    ELSE IF is_none(e.p.last_expression) THEN R(e.p, "Panic")
    ELSE
    Bind(check([e.p EXCEPT !.commands =
                  push_command(
                     push_command(e.p.commands,
                        Cmd("cmpw", <<"#0", location(unwrap(e.p.last_expression))>>)),
                     Cmd("beq", <<"$e_while" \o w_temp>>))],
               "Keyword(Do)"), LAMBDA c :
    IF c.st # "Continue" THEN Unexpected(c)
    ELSE
    Bind(statement(c.p), LAMBDA st :
    IF st.st = "Continue"
    THEN R([st.p EXCEPT !.commands =
               set_prefix(push_command(st.p.commands, Cmd("jmp", <<"$b_while" \o w_temp>>)),
                          "$e_while" \o w_temp)],
           "Continue")
    ELSE st)))

\* Parser::statement, lines 762-809: `prompt`.
statement_prompt(p) ==
    Bind(check(p, "String"), LAMBDA c :
    IF c.st # "Continue" THEN Unexpected(c)
    ELSE
    Bind(follow_prompt(add_print_command(c.p, unwrap(c.p.last_token).lexeme)), LAMBDA f :
    IF f.st # "Continue" THEN f
    ELSE
    Bind(IF is_some(f.p.last_token)
         THEN get(f.p.symbol_table, unwrap(f.p.last_token).lexeme)
         ELSE None, LAMBDA found :
    IF is_some(found)
    THEN R(Parser_push_command(f.p, Cmd("inw", <<location(unwrap(found))>>)), "Continue")
    ELSE R(Parser_push_command(f.p, Cmd("inb", <<"$junk">>)), "Continue"))))

\* Parser::statement
statement(p0) ==
    IF Len(p0.tokens) = 0 THEN R(p0, "Panic")
    ELSE
    Bind(Head(p0.tokens).token_type, LAMBDA token_type_ :
    Bind(next_token(p0), LAMBDA p :
    IF token_type_ = "Keyword(If)" THEN statement_if(p)
    ELSE IF token_type_ = "Keyword(While)" THEN statement_while(p)
    ELSE IF token_type_ = "Keyword(Begin)" THEN follow_begin(p)
    ELSE IF token_type_ = "Identifier" THEN follow_id(p)
    ELSE IF token_type_ = "Keyword(Prompt)" THEN statement_prompt(p)
    ELSE IF token_type_ = "Keyword(Print)" THEN follow_print(p)
    ELSE R(p, "Unexpected")))

\* Parser::statement_tail
statement_tail(p) ==
    Bind(check(p, "Semicolon"), LAMBDA c :
    IF c.st = "Panic" THEN c
    ELSE IF c.st # "Continue" THEN R(insert_last_token(c.p), "Continue")
    ELSE
    Bind(statement(c.p), LAMBDA s1 :
    IF s1.st # "Continue" THEN Unexpected(s1)
    ELSE statement_tail(s1.p)))

\* Parser::statements
statements(p) ==
    Bind(statement(p), LAMBDA s1 :
    IF s1.st # "Continue" THEN Unexpected(s1)
    ELSE
    Bind(statement_tail(s1.p), LAMBDA t :
    IF t.st # "Continue" THEN Unexpected(t)
    ELSE t))

\* Parser::block, lines 302-320: the label of a procedure's block, the
\* constants and variables, and the jump over the procedures of the main block.
block_open(p0) ==
    LET proc_t == current_proc(p0.symbol_table)
        p1 == IF is_some(p0.commands.prefix)
              THEN [p0 EXCEPT !.commands = push_useless(p0.commands)] ELSE p0
        p2 == IF proc_t # "mainblock"
              THEN push_prefix(Parser_push_command(p1, Comment(<<"Block", proc_t>>)),
                               "$" \o proc_t)
              ELSE p1
    IN  Bind(consts(p2), LAMBDA c :
        IF c.st # "Continue" THEN Unexpected(c)
        ELSE
        Bind(vars_rule(c.p), LAMBDA v :
        IF v.st # "Continue" THEN Unexpected(v)
        ELSE IF proc_t = "mainblock"
        THEN R(Parser_push_command(
                 Parser_push_command(
                   Parser_push_command(v.p,
                     Comment(<<"Jump", "to", "block", proc_t, "of", "execution">>)),
                   Cmd("jmp", <<"$" \o proc_t>>)),
                 Cmd("", <<>>)),
               "Continue")
        ELSE v))

\* Parser::block, lines 324-341: `begin` statements `end`.
block_close(p, proc_t) ==
    Bind(check(p, "Keyword(Begin)"), LAMBDA c1 :
    IF c1.st # "Continue" THEN Unexpected(c1)
    ELSE
    Bind(statements(IF proc_t = "mainblock"
                    THEN push_prefix(
                            Parser_push_command(c1.p, Comment(<<"Block", proc_t>>)),
                            "$" \o proc_t)
                    ELSE c1.p), LAMBDA s1 :
    IF s1.st # "Continue" THEN Unexpected(s1)
    ELSE
    Bind(check(s1.p, "Keyword(End)"), LAMBDA c2 :
    IF c2.st = "Continue" /\ proc_t # "mainblock"
    THEN R(Parser_push_command(c2.p, Cmd("ret\n:", <<"end", proc_t \o "\n">>)), "Continue")
    ELSE c2)))

\* Parser::block
block(p) ==
    Bind(block_open(p), LAMBDA o :
    IF o.st # "Continue" THEN o
    ELSE
    Bind(procs(o.p), LAMBDA pr :
    IF pr.st # "Continue" THEN Unexpected(pr)
    ELSE block_close(pr.p, current_proc(p.symbol_table))))

\* Parser::token_proc, lines 518-536: the new scope is entered, then the
\* procedure's name is added to it, then the parameter list is read.
token_proc_open(p) ==
    Bind(check(p, "Keyword(Proc)"), LAMBDA c1 :
    IF c1.st = "Panic" THEN c1
    ELSE IF c1.st # "Continue" THEN R(c1.p, "Incorrect")
    ELSE
    Bind(check([c1.p EXCEPT !.symbol_table = enter_proc(c1.p.symbol_table)], "Identifier"),
         LAMBDA c2 :
    IF c2.st # "Continue" THEN Unexpected(c2)
    ELSE
    LET id == unwrap(c2.p.last_token).lexeme
    IN  IF add_panics(c2.p.symbol_table, id) THEN R(c2.p, "Panic")
        ELSE
        Bind(param_list([c2.p EXCEPT !.symbol_table = add(c2.p.symbol_table, id, Procedure)]),
             LAMBDA pl :
        IF pl.st # "Continue" THEN Unexpected(pl)
        ELSE
        Bind(check(pl.p, "Semicolon"), LAMBDA c3 :
        IF c3.st # "Continue" THEN Unexpected(c3)
        ELSE c3))))

\* Parser::token_proc, lines 540-554: the `;` after the block and the exit
\* from the procedure's scope.
token_proc_close(p) ==
    Bind(check(p, "Semicolon"), LAMBDA r :
    IF r.st = "Panic" THEN r
    ELSE
    Bind(exit(r.p.symbol_table), LAMBDA old :
    IF is_none(old) THEN R(r.p, "Panic")
    ELSE R([r.p EXCEPT !.symbol_table = unwrap(old)],
           IF r.st = "Continue" THEN "Continue" ELSE "Unexpected")))

\* Parser::token_proc
token_proc(p) ==
    Bind(token_proc_open(p), LAMBDA o :
    IF o.st # "Continue" THEN o
    ELSE
    Bind(block(o.p), LAMBDA b :
    IF b.st # "Continue" THEN Unexpected(b)
    ELSE token_proc_close(b.p)))

\* Parser::procs
procs(p) ==
    Bind(token_proc(p), LAMBDA r :
    IF r.st = "Continue" THEN procs(r.p)
    ELSE IF r.st = "Incorrect" THEN R(insert_last_token(r.p), "Continue")
    ELSE Unexpected(r))

\* Parser::program, lines 284-286: `program` id `;`.
program_open(p) ==
    Bind(check(p, "Keyword(Program)"), LAMBDA c1 :
    IF c1.st # "Continue" THEN Unexpected(c1)
    ELSE
    Bind(check(c1.p, "Identifier"), LAMBDA c2 :
    IF c2.st # "Continue" THEN Unexpected(c2)
    ELSE
    Bind(check(c2.p, "Semicolon"), LAMBDA c3 :
    IF c3.st # "Continue" THEN Unexpected(c3)
    ELSE c3)))

\* Parser::program, lines 290-295: the final period.
program_close(p) ==
    Bind(check(p, "Period"), LAMBDA c :
    IF c.st = "Panic" THEN c
    ELSE IF c.st # "Continue" THEN R(c.p, "Continue")
    ELSE R(Parser_push_command(Parser_push_command(c.p, Cmd("inb", <<"$junk">>)),
                               Cmd("end", <<>>)),
           "Success"))

\* Parser::program
program(p) ==
    Bind(program_open(p), LAMBDA o :
    IF o.st # "Continue" THEN o
    ELSE
    Bind(block(o.p), LAMBDA b :
    IF b.st # "Continue" THEN Unexpected(b)
    ELSE program_close(b.p)))

\* Parser::parse, lines 139-188, after program(): on Success the output file
\* is put together in declarations; every other outcome is Unexpected.
parse_close(r) ==
    IF r.st = "Panic" THEN r
    ELSE IF r.st # "Success" THEN R(r.p, "Unexpected")
    ELSE
    LET n_decl == Len(r.p.declarations)
        head == <<Comment(<<"Initialize", "junk", "variable", "and", "setup", "the", "stack">>),
                  LabelledCmd("$junk", "#1", <<>>),
                  LabelledCmd("$main", "movw", <<"SP", "R0">>)>>
        tail == <<Cmd("addw", <<"#" \o ToString(n_decl * 4) \o ",", "SP">>), Cmd("", <<>>)>>
    IN  R([r.p EXCEPT
              !.declarations = head \o r.p.declarations \o tail \o r.p.commands.commands,
              !.commands = [r.p.commands EXCEPT !.commands = <<>>]],
          "Success")

\* Parser::parse
Parser_parse(p) == parse_close(program(p))

(***************************************************************************)
(* SpecParser: Parser::parse on the tokens of a program, one action per    *)
(* stage of the main block: the program header, the declarations, each     *)
(* top-level procedure (header, block, exit) and the main statements.      *)
(***************************************************************************)

\* The largest number of statements of the main block.
MaxStatements == 2

Kw(k, l) == Token("Keyword(" \o k \o ")", l)
Id(l) == Token("Identifier", l)
Num(l) == Token("Number", l)
Semi == Token("Semicolon", ";")
AssignTok == Token("Assign", ":=")
ColonTok == Token("Colon", ":")
LessTok == Token("LessThan", "<")
PlusTok == Token("Plus", "+")
Hi == Token("String", "\"hi\"")

\* var a : int ; var f : boolean ;
VarsAF ==
    <<Kw("Var", "var"), Id("a"), ColonTok, Kw("Int", "int"), Semi,
      Kw("Var", "var"), Id("f"), ColonTok, Kw("Bool", "boolean"), Semi>>

\* const c := 1 ;
ConstC == <<Kw("Const", "const"), Id("c"), AssignTok, Num("1"), Semi>>

DeclRuns == {VarsAF, ConstC \o VarsAF}

ALess1 == <<Id("a"), LessTok, Num("1")>>
IfA == <<Kw("If", "if")>> \o ALess1 \o <<Kw("Then", "then"), Id("a"), AssignTok, Num("1")>>

\* The statements of a procedure body; x is a parameter name.
BodyStatements ==
    {<<Id("a"), AssignTok, Num("1")>>,
     <<Kw("Print", "print"), Id("x")>>,
     IfA,
     <<Id("f"), AssignTok>> \o ALess1,
     <<Id("a"), AssignTok, Id("q")>>}

\* The statements of the main block.
MainStatements ==
    {<<Id("a"), AssignTok, Num("1")>>,
     <<Id("a"), AssignTok, Id("a"), PlusTok, Id("c")>>,
     <<Id("f"), AssignTok, Id("f"), Kw("And", "and"), Id("f")>>,
     <<Id("f"), AssignTok>> \o ALess1 \o <<Kw("Or", "or")>> \o ALess1,
     IfA,
     IfA \o <<Kw("Else", "else"), Kw("Print", "print"), Id("a")>>,
     <<Kw("While", "while")>> \o ALess1
        \o <<Kw("Do", "do"), Id("a"), AssignTok, Id("a"), PlusTok, Num("1")>>,
     <<Kw("Print", "print"), Hi>>,
     <<Kw("Prompt", "prompt"), Hi, Token("Comma", ","), Id("a")>>,
     <<Kw("Prompt", "prompt"), Hi>>,
     <<Kw("Begin", "begin"), Id("a"), AssignTok, Id("u"), Kw("End", "end")>>,
     <<Kw("Begin", "begin"), Kw("End", "end")>>,
     <<Kw("Prompt", "prompt"), Hi, Token("Comma", ","), Id("u")>>,
     <<Id("u"), AssignTok, Num("1")>>,
     <<Id("u")>>,
     <<Id("c"), AssignTok, Num("1")>>,
     <<Id("a"), AssignTok, Id("f")>>}

\* The statements that call the procedure q.
\* if a < 1 then q
IfCall == <<Kw("If", "if")>> \o ALess1 \o <<Kw("Then", "then"), Id("q")>>

CallStatements ==
    {<<Id("q")>>,
     <<Id("q"), Token("LeftParen", "("), Num("1"), Token("RightParen", ")")>>}

\* proc name params ; inner begin body end ;
Proc(name, parameters, inner, body) ==
    <<Kw("Proc", "proc"), Id(name)>> \o parameters \o <<Semi>> \o inner
        \o <<Kw("Begin", "begin")>> \o body \o <<Kw("End", "end"), Semi>>

\* var x : int ;   and   const k := 2 ; var x : int ;
LocalX == <<Kw("Var", "var"), Id("x"), ColonTok, Kw("Int", "int"), Semi>>
LocalKX == <<Kw("Const", "const"), Id("k"), AssignTok, Num("2"), Semi>> \o LocalX

ParamX == <<Token("LeftParen", "("), Id("x"), ColonTok, Kw("Int", "int"),
            Token("RightParen", ")")>>
ParamXY == <<Token("LeftParen", "("), Id("x"), ColonTok, Kw("Int", "int"),
             Token("Comma", ","), Id("y"), ColonTok, Kw("Bool", "boolean"),
             Token("RightParen", ")")>>

\* The procedure declarations of a program that declares q.
ProcRuns ==
    {Proc("q", <<>>, <<>>, b) : b \in BodyStatements}
    \cup {Proc("q", ParamX, <<>>, b) : b \in BodyStatements}
    \cup {Proc("q", ParamXY, <<>>, <<Id("a"), AssignTok, Num("1")>>),
          Proc("q", <<>>, LocalX, <<Id("x"), AssignTok, Num("1")>>),
          Proc("q", <<>>, LocalKX, <<Id("x"), AssignTok, Id("k")>>),
          Proc("q", <<>>, Proc("r", <<>>, <<>>, IfA), IfA),
          Proc("q", <<>>, <<>>, IfA) \o Proc("r", ParamX, <<>>, IfA)}

\* s1 ; s2 ; ... of at most n statements.
RECURSIVE StatementRuns(_, _)
StatementRuns(sts, n) ==
    IF n = 1 THEN sts
    ELSE StatementRuns(sts, n - 1)
         \cup {r \o <<Semi>> \o st : r \in StatementRuns(sts, n - 1), st \in sts}

ProgramOf(decls, procedures, main) ==
    <<Kw("Program", "program"), Id("p"), Semi>> \o decls \o procedures
        \o <<Kw("Begin", "begin")>> \o main
        \o <<Kw("End", "end"), Token("Period", "."), Token("EOFile", "")>>

\* Well-formed programs, and token lists that end early.
\* program p; const a := 2; var b : int; begin b := a + 3 end.
ConstA2VarB ==
    <<Kw("Const", "const"), Id("a"), AssignTok, Num("2"), Semi,
      Kw("Var", "var"), Id("b"), ColonTok, Kw("Int", "int"), Semi>>
BAssignAPlus3 == <<Id("b"), AssignTok, Id("a"), PlusTok, Num("3")>>
ConstantSumProgram == ProgramOf(ConstA2VarB, <<>>, BAssignAPlus3)

\* Compound statements whose first statement is refused after its expression
\* was read, or is complete.
\* begin a := f end    begin if f then a := f end    begin a := 1 ; a := f end
CompoundStatements ==
    {<<Kw("Begin", "begin"), Id("a"), AssignTok, Id("f"), Kw("End", "end")>>,
     <<Kw("Begin", "begin"), Kw("If", "if"), Id("f"), Kw("Then", "then"),
       Id("a"), AssignTok, Id("f"), Kw("End", "end")>>,
     <<Kw("Begin", "begin"), Id("a"), AssignTok, Num("1"), Semi,
       Id("a"), AssignTok, Id("f"), Kw("End", "end")>>,
     <<Kw("Begin", "begin"), Id("a"), AssignTok, Num("1"), Semi,
       Id("f"), AssignTok>> \o ALess1 \o <<Kw("End", "end")>>}

\* if and while statements inside one another.
IfF == <<Kw("If", "if"), Id("f"), Kw("Then", "then")>>
WhileF == <<Kw("While", "while"), Id("f"), Kw("Do", "do")>>
A1 == <<Id("a"), AssignTok, Num("1")>>
Else == <<Kw("Else", "else")>>

ControlStatements ==
    {IfF \o IfF \o A1,
     IfF \o IfF \o A1 \o Else \o A1,
     IfF \o A1 \o Else \o IfA \o Else \o <<Kw("Print", "print"), Id("a")>>,
     IfF \o <<Kw("Begin", "begin")>> \o IfA \o <<Semi>> \o A1 \o <<Kw("End", "end")>>
         \o Else \o A1,
     IfF \o WhileF \o A1,
     IfF \o A1 \o Else \o WhileF \o A1,
     WhileF \o IfF \o A1,
     WhileF \o IfF \o A1 \o Else \o A1,
     WhileF \o <<Kw("While", "while")>> \o ALess1 \o <<Kw("Do", "do")>> \o A1,
     WhileF \o <<Kw("Begin", "begin")>> \o A1 \o <<Semi>> \o WhileF \o A1
         \o <<Kw("End", "end")>>}

\* Statements in which `then` or `do` is directly followed by the `end` of
\* the enclosing block or compound statement.
\* if f then    while f do    begin if f then end    begin while f do end
\* begin a := 1 ; if f then end
MissingStatements ==
    {IfF, WhileF,
     <<Kw("Begin", "begin")>> \o IfF \o <<Kw("End", "end")>>,
     <<Kw("Begin", "begin")>> \o WhileF \o <<Kw("End", "end")>>,
     <<Kw("Begin", "begin")>> \o A1 \o <<Semi>> \o IfF \o <<Kw("End", "end")>>,
     A1 \o <<Semi, Kw("Begin", "begin")>> \o WhileF \o <<Kw("End", "end")>>}

\* A compound statement in which `else` is directly followed by `end`.
\* begin if f then a := 1 else end
MissingElseStatements ==
    {<<Kw("Begin", "begin")>> \o IfF \o A1 \o Else \o <<Kw("End", "end")>>}

Programs ==
    {ConstantSumProgram}
    \cup {ProgramOf(VarsAF, <<>>, m) : m \in MissingStatements}
    \cup {ProgramOf(VarsAF, <<>>, m) : m \in MissingElseStatements}
    \cup {ProgramOf(VarsAF, <<>>, m) : m \in StatementRuns(CompoundStatements, MaxStatements)}
    \cup {ProgramOf(VarsAF, <<>>, m) : m \in StatementRuns(ControlStatements, MaxStatements)}
    \cup {ProgramOf(VarsAF, Proc("q", <<>>, <<>>, m), IfA) : m \in ControlStatements}
    \cup
    {ProgramOf(d, <<>>, m) :
        d \in DeclRuns, m \in StatementRuns(MainStatements, MaxStatements)}
    \cup {ProgramOf(d, pr, m) :
        d \in DeclRuns, pr \in ProcRuns,
        m \in StatementRuns(MainStatements \cup CallStatements, 1)}
    \cup {ProgramOf(VarsAF, Proc("q", <<>>, <<>>, IfA), m) :
        m \in StatementRuns({IfA, IfCall} \cup CallStatements, MaxStatements)}
    \cup {<<>>,
          <<Kw("Program", "program"), Id("p"), Semi, Kw("Begin", "begin"),
            Kw("Print", "print"), Hi, Kw("End", "end"), Token("EOFile", "")>>,
          <<Kw("Program", "program"), Id("p"), Semi, Kw("Proc", "proc"), Id("q"), Semi,
            Kw("Begin", "begin"), Kw("Print", "print"), Hi, Kw("End", "end"),
            Token("Period", "."), Token("EOFile", "")>>}

ParInit ==
    /\ par_pc = "program"
    /\ par_tokens \in Programs
    /\ par = new_with_tokens(par_tokens)
    /\ par_proc = None
    /\ par_params = {}
    /\ PfIdle
    /\ EpIdle
    /\ TabIdle
    /\ CbIdle
    /\ ScIdle
    /\ TbIdle

ParPc(st, continue) ==
    IF st = "Continue" THEN continue
    ELSE IF st = "Panic" THEN "panic"
    ELSE IF st = "Success" THEN "success"
    ELSE "unexpected"

\* The parser and the stage after a rule returned r.
ParStep(r, continue) ==
    /\ par' = r.p
    /\ par_pc' = ParPc(r.st, continue)

\* Parser::program: `program` id `;`
PProgram ==
    /\ par_pc = "program"
    /\ ParStep(program_open(par), "block")
    /\ UNCHANGED <<par_tokens, par_proc, par_params, pf_vars, ep_vars, tab_vars, cb_vars, sc_vars, tb_vars>>

\* Parser::block of the main block, up to its procedures.
PBlockOpen ==
    /\ par_pc = "block"
    /\ ParStep(block_open(par), "procs")
    /\ UNCHANGED <<par_tokens, par_proc, par_params, pf_vars, ep_vars, tab_vars, cb_vars, sc_vars, tb_vars>>

\* The tokens a rule took from the front of the token list.
Consumed(before, after) == SubSeq(before.tokens, 1, Len(before.tokens) - Len(after.tokens))

\* The parameters `id : type` among the tokens of a procedure's header.
ParamsOf(tokens) ==
    {[id |-> tokens[i].lexeme,
      vt |-> IF tokens[i + 2].token_type = "Keyword(Bool)" THEN "Bool" ELSE "Int"] :
        i \in {j \in 1..(Len(tokens) - 2) :
                 tokens[j].token_type = "Identifier" /\ tokens[j + 1].token_type = "Colon"}}

\* The stage after token_proc_open returned r: Incorrect is the end of
\* Parser::procs; on Continue the header's name and parameters are recorded.
ProcOpened(r) ==
    IF r.st = "Incorrect"
    THEN /\ par' = insert_last_token(r.p)
         /\ par_pc' = "begin"
         /\ UNCHANGED <<par_proc, par_params>>
    ELSE /\ ParStep(r, "proc_block")
         /\ IF r.st = "Continue"
            THEN /\ par_proc' = Some(Consumed(par, r.p)[2].lexeme)
                 /\ par_params' = ParamsOf(Consumed(par, r.p))
            ELSE UNCHANGED <<par_proc, par_params>>

\* Parser::procs and token_proc of the main block: the header of the next
\* procedure, or no procedure is left.
PProcOpen ==
    /\ par_pc = "procs"
    /\ ProcOpened(token_proc_open(par))
    /\ UNCHANGED <<par_tokens, pf_vars, ep_vars, tab_vars, cb_vars, sc_vars, tb_vars>>

\* Parser::block of a top-level procedure.
PProcBlock ==
    /\ par_pc = "proc_block"
    /\ ParStep(block(par), "proc_close")
    /\ UNCHANGED <<par_tokens, par_proc, par_params, pf_vars, ep_vars, tab_vars, cb_vars, sc_vars, tb_vars>>

\* Parser::token_proc: the `;` after the block, and the exit from the scope.
PProcClose ==
    /\ par_pc = "proc_close"
    /\ ParStep(token_proc_close(par), "procs")
    /\ UNCHANGED <<par_tokens, par_proc, par_params, pf_vars, ep_vars, tab_vars, cb_vars, sc_vars, tb_vars>>

\* Parser::program and Parser::parse after the block returned b.
program_end(b) ==
    parse_close(IF b.st = "Continue" THEN program_close(b.p) ELSE Unexpected(b))

\* The statements of the main block, the final period and the assembly of
\* the output in Parser::parse.
PBlockClose ==
    /\ par_pc = "begin"
    /\ ParStep(program_end(block_close(par, "mainblock")), "unexpected")
    /\ UNCHANGED <<par_tokens, par_proc, par_params, pf_vars, ep_vars, tab_vars, cb_vars, sc_vars, tb_vars>>

ParNext == PProgram \/ PBlockOpen \/ PProcOpen \/ PProcBlock \/ PProcClose \/ PBlockClose

SpecParser == ParInit /\ [][ParNext]_vars

\* The stages above compose to Parser::parse.
ParAgreesWithParse ==
    par_pc \in {"success", "unexpected", "panic"} =>
        Bind(Parser_parse(new_with_tokens(par_tokens)), LAMBDA r :
            /\ r.st = (IF par_pc = "success" THEN "Success"
                       ELSE IF par_pc = "panic" THEN "Panic" ELSE "Unexpected")
            /\ (r.st # "Panic" => r.p = par))

(***************************************************************************)
(* Claims about the labels of the output and the scopes of procedures.     *)
(***************************************************************************)

\* The command lines emitted so far; on success Parser::parse has moved them
\* into declarations, behind the header and the global declarations.
ParEmitted == IF par_pc = "success" THEN par.declarations ELSE par.commands.commands

\* The instructions that name a label as their target.
BranchOps == {"beq", "bneq", "bgtr", "bgeq", "blss", "bleq", "jmp", "call"}

\* The target of a branch, jump or call: its last operand.
Target(cmd) == cmd.args[Len(cmd.args)]

\* C2: in the command list of a successful compilation every label that is
\* the target of a branch, jump or call is carried as a prefix by exactly
\* one line.
C2_TargetsLabelledOnce ==
    par_pc = "success" =>
        \A i \in 1..Len(par.declarations) :
            par.declarations[i].op \in BranchOps =>
                Cardinality(LabelLines(par.declarations, Target(par.declarations[i]))) = 1

\* The numbers n of the lines `op prefix{n}` among the first k lines of
\* cmds, in the order of the lines.
RECURSIVE Issued(_, _, _, _)
Issued(cmds, k, op, prefix) ==
    IF k = 0 THEN <<>>
    ELSE Bind({n \in 0..Len(cmds) :
                 /\ cmds[k].op = op
                 /\ Len(cmds[k].args) > 0
                 /\ Target(cmds[k]) = prefix \o ToString(n)}, LAMBDA ns :
         Issued(cmds, k - 1, op, prefix)
            \o (IF ns = {} THEN <<>> ELSE <<CHOOSE n \in ns : TRUE>>))

StrictlyIncreasing(s) == \A i \in 1..(Len(s) - 1) : s[i] < s[i + 1]

\* The numbers if_temp returned, read off the `beq $if_else{n}` that follows
\* each of its calls; likewise while_temp (`beq $e_while{n}`) and the
\* bool_temp of the evaluator (`jmp $b_end{n}`).
IssuedIf == Issued(ParEmitted, Len(ParEmitted), "beq", "$if_else")
IssuedWhile == Issued(ParEmitted, Len(ParEmitted), "beq", "$e_while")
IssuedBool == Issued(ParEmitted, Len(ParEmitted), "jmp", "$b_end")

\* C3: during one compilation the numbers issued for if-labels, for
\* while-labels and for boolean labels are each strictly increasing, so no
\* label number is issued twice, also after the exit from a procedure scope
\* and across successive expressions.
C3_LabelNumbersIncrease ==
    /\ StrictlyIncreasing(IssuedIf)
    /\ StrictlyIncreasing(IssuedWhile)
    /\ StrictlyIncreasing(IssuedBool)

\* C9: once the declaration of a procedure has been parsed and its scope
\* exited, the lookup of its name in the enclosing scope returns its
\* Procedure symbol.
C9_ProcedureBoundInEnclosingScope ==
    (par_pc \in {"procs", "begin"} /\ is_some(par_proc)) =>
        Bind(get(par.symbol_table, unwrap(par_proc)), LAMBDA s :
            is_some(s) /\ unwrap(s).symbol_type = Procedure)

\* C10: when the body of a procedure is parsed, the lookup of each parameter
\* of its parameter list returns a binding with the declared value type.
C10_ParametersBoundInProcedureScope ==
    par_pc = "proc_block" =>
        \A prm \in par_params :
            Bind(get(par.symbol_table, prm.id), LAMBDA s :
                is_some(s) /\ unwrap(s).symbol_type.vt = prm.vt)

(***************************************************************************)
(* SpecTable: the calls of parser/symbol.rs on one SymbolTable, in any     *)
(* order.  A panic! ends the run with the table as it was when the panic   *)
(* was raised; exit on the outermost scope consumes the table.             *)
(***************************************************************************)
MaxTableOps == 4

TableNames == {"a", "q"}
TableKinds == {Variable("Int"), Constant("Bool"), Procedure}

TabInit ==
    /\ tab_pc = "ready"
    /\ tab = empty
    /\ tab_n = 0
    /\ tab_last = None
    /\ tab_entered = <<>>
    /\ PfIdle
    /\ EpIdle
    /\ ParIdle
    /\ CbIdle
    /\ ScIdle
    /\ TbIdle

TabReady == tab_pc = "ready" /\ tab_n < MaxTableOps

TabCall(op, name, kind, result) ==
    /\ tab_n' = tab_n + 1
    /\ tab_last' = Some([op |-> op, name |-> name, kind |-> kind, result |-> result])

\* SymbolTable::add, lines 104-136
TAdd ==
    /\ TabReady
    /\ \E name \in TableNames, kind \in TableKinds :
          /\ IF add_panics(tab, name)
             THEN tab_pc' = "panicked" /\ tab' = tab
             ELSE tab_pc' = "ready" /\ tab' = add(tab, name, kind)
          /\ TabCall("add", name, kind, None)
    /\ UNCHANGED <<tab_entered, pf_vars, ep_vars, par_vars, cb_vars, sc_vars, tb_vars>>

\* SymbolTable::get, lines 146-159
TGet ==
    /\ TabReady
    /\ \E name \in TableNames \cup {temp_name(0)} :
          TabCall("get", name, Procedure, get(tab, name))
    /\ UNCHANGED <<tab_pc, tab, tab_entered, pf_vars, ep_vars, par_vars, cb_vars, sc_vars, tb_vars>>

\* SymbolTable::enter, lines 162-164
TEnter ==
    /\ TabReady
    /\ tab' = enter(tab)
    /\ tab_entered' = Append(tab_entered, tab)
    /\ TabCall("enter", "", Procedure, None)
    /\ UNCHANGED <<tab_pc, pf_vars, ep_vars, par_vars, cb_vars, sc_vars, tb_vars>>

\* SymbolTable::enter_proc, lines 166-174
TEnterProc ==
    /\ TabReady
    /\ tab' = enter_proc(tab)
    /\ tab_entered' = Append(tab_entered, tab)
    /\ TabCall("enter_proc", "", Procedure, None)
    /\ UNCHANGED <<tab_pc, pf_vars, ep_vars, par_vars, cb_vars, sc_vars, tb_vars>>

TabExited(r) ==
    IF is_some(r)
    THEN /\ tab' = unwrap(r)
         /\ tab_pc' = "ready"
         /\ tab_entered' = SubSeq(tab_entered, 1, Len(tab_entered) - 1)
    ELSE /\ tab' = tab
         /\ tab_pc' = "gone"
         /\ tab_entered' = tab_entered

\* SymbolTable::exit, lines 177-191
TExit ==
    /\ TabReady
    /\ TabExited(exit(tab))
    /\ TabCall("exit", "", Procedure, None)
    /\ UNCHANGED <<pf_vars, ep_vars, par_vars, cb_vars, sc_vars, tb_vars>>

\* SymbolTable::temp, lines 195-212
TTemp ==
    /\ TabReady
    /\ \E vt \in {"Int", "Bool"} :
          /\ tab' = temp(tab, Variable(vt))
          /\ TabCall("temp", temp_name(tab.next_temp), Variable(vt),
                     Some(temp_symbol(tab, Variable(vt))))
    /\ UNCHANGED <<tab_pc, tab_entered, pf_vars, ep_vars, par_vars, cb_vars, sc_vars, tb_vars>>

\* SymbolTable::up_register, lines 214-220
TUpRegister ==
    /\ TabReady
    /\ tab' = up_register(tab)
    /\ TabCall("up_register", "", Procedure, None)
    /\ UNCHANGED <<tab_pc, tab_entered, pf_vars, ep_vars, par_vars, cb_vars, sc_vars, tb_vars>>

\* SymbolTable::reset_offset, lines 253-255
TResetOffset ==
    /\ TabReady
    /\ tab' = reset_offset(tab)
    /\ TabCall("reset_offset", "", Procedure, None)
    /\ UNCHANGED <<tab_pc, tab_entered, pf_vars, ep_vars, par_vars, cb_vars, sc_vars, tb_vars>>

\* SymbolTable::bool_temp, if_temp, while_temp, lines 222-235
TBoolTemp ==
    /\ TabReady
    /\ tab' = bool_temp(tab)
    /\ TabCall("bool_temp", "", Procedure, None)
    /\ UNCHANGED <<tab_pc, tab_entered, pf_vars, ep_vars, par_vars, cb_vars, sc_vars, tb_vars>>

TIfTemp ==
    /\ TabReady
    /\ tab' = if_temp(tab)
    /\ TabCall("if_temp", "", Procedure, None)
    /\ UNCHANGED <<tab_pc, tab_entered, pf_vars, ep_vars, par_vars, cb_vars, sc_vars, tb_vars>>

TWhileTemp ==
    /\ TabReady
    /\ tab' = while_temp(tab)
    /\ TabCall("while_temp", "", Procedure, None)
    /\ UNCHANGED <<tab_pc, tab_entered, pf_vars, ep_vars, par_vars, cb_vars, sc_vars, tb_vars>>

TabNext ==
    \/ TAdd
    \/ TGet
    \/ TEnter
    \/ TEnterProc
    \/ TExit
    \/ TTemp
    \/ TUpRegister
    \/ TResetOffset
    \/ TBoolTemp
    \/ TIfTemp
    \/ TWhileTemp

SpecTable == TabInit /\ [][TabNext]_vars

\* The scopes of a table, innermost first: each is a list of symbols.
RECURSIVE Scopes(_)
Scopes(table) ==
    <<table.symbols>> \o
    (IF is_some(table.old_table) THEN Scopes(unwrap(table.old_table)) ELSE <<>>)

\* The name is bound in this list of symbols.
Binds(symbols, name) == \E i \in 1..Len(symbols) : symbols[i].identifier = name

\* The call that the last step made, if the step made one.
TabStepped(op) ==
    /\ tab_n' = tab_n + 1
    /\ unwrap(tab_last').op = op

\* C11: a call add(name, kind) fails exactly when the name is bound in the
\* innermost scope, and then the symbols, the next offset and the procedure
\* stack of the table are as before; a name bound only in an enclosing scope
\* does not make it fail.  On success the new symbol is at the front of the
\* scope with the offset the table had, and the next offset is 4 larger for
\* a variable or constant and the same for a procedure.
C11_AddEffect ==
    LET name == unwrap(tab_last').name
        kind == unwrap(tab_last').kind
    IN  IF Binds(tab.symbols, name)
        THEN /\ tab_pc' = "panicked"
             /\ tab'.symbols = tab.symbols
             /\ tab'.next_offset = tab.next_offset
             /\ tab'.proc_stack = tab.proc_stack
        ELSE /\ tab_pc' = "ready"
             /\ Len(tab'.symbols) = Len(tab.symbols) + 1
             /\ tab'.symbols[1].identifier = name
             /\ tab'.symbols[1].symbol_type = kind
             /\ tab'.symbols[1].offset = tab.next_offset
             /\ tab'.next_offset =
                    IF kind = Procedure THEN tab.next_offset ELSE tab.next_offset + 4

C11_AddFailsOnlyOnDuplicateInScope ==
    [][TabStepped("add") => C11_AddEffect]_vars

\* A duplicate add was rejected although the table has an enclosing scope.
C11_Witness ==
    /\ tab_pc = "panicked"
    /\ is_some(tab.old_table)
    /\ unwrap(tab_last).op = "add"

\* The offsets of one scope are non-negative multiples of 4 and no two of
\* its symbols share an offset or an identifier.
ScopeDistinct(symbols) ==
    /\ \A i \in 1..Len(symbols) :
          symbols[i].offset >= 0 /\ symbols[i].offset % 4 = 0
    /\ \A i, j \in 1..Len(symbols) :
          i # j => /\ symbols[i].offset # symbols[j].offset
                   /\ symbols[i].identifier # symbols[j].identifier

\* C12: in every reachable state of the symbol table, in each scope every
\* offset is a non-negative multiple of 4 and no two symbols of the scope
\* have the same offset or the same identifier, procedure symbols and
\* temporaries included.
C12_OffsetsAndNamesDistinctPerScope ==
    \A k \in 1..Len(Scopes(tab)) : ScopeDistinct(Scopes(tab)[k])

\* The binding of a name in the innermost scope that binds it: the symbol
\* added last under that name in the first such scope, or None.
RECURSIVE InnermostBinding(_, _, _)
InnermostBinding(scopes, name, k) ==
    IF k > Len(scopes) THEN None
    ELSE IF Binds(scopes[k], name)
    THEN Some(scopes[k][CHOOSE i \in 1..Len(scopes[k]) :
                  /\ scopes[k][i].identifier = name
                  /\ \A j \in 1..(i - 1) : scopes[k][j].identifier # name])
    ELSE InnermostBinding(scopes, name, k + 1)

\* C13: get(name) returns the binding of the innermost scope that binds the
\* name, the current scope first and then each enclosing scope in turn, and
\* returns None exactly when no scope binds it: an inner declaration shadows
\* an outer one of the same name.
C13_GetReturnsInnermostBinding ==
    (tab_pc = "ready" /\ is_some(tab_last) /\ unwrap(tab_last).op = "get") =>
        /\ unwrap(tab_last).result = InnermostBinding(Scopes(tab), unwrap(tab_last).name, 1)
        /\ is_none(unwrap(tab_last).result) <=>
               \A k \in 1..Len(Scopes(tab)) : ~Binds(Scopes(tab)[k], unwrap(tab_last).name)

\* get returned the inner of two bindings of one name, which differ.
C13_Witness ==
    /\ tab_pc = "ready"
    /\ is_some(tab_last)
    /\ unwrap(tab_last).op = "get"
    /\ Len(Scopes(tab)) = 2
    /\ Binds(Scopes(tab)[1], unwrap(tab_last).name)
    /\ Binds(Scopes(tab)[2], unwrap(tab_last).name)
    /\ unwrap(tab_last).result # get(unwrap(tab.old_table), unwrap(tab_last).name)

\* The procedure whose scope is the innermost open procedure scope: a scope
\* opened for a procedure holds the procedure's own symbol (token_proc adds
\* it right after enter_proc); "mainblock" when no scope holds one.
RECURSIVE OpenProcedure(_)
OpenProcedure(table) ==
    IF \E i \in 1..Len(table.symbols) : table.symbols[i].symbol_type = Procedure
    THEN table.symbols[CHOOSE i \in 1..Len(table.symbols) :
             /\ table.symbols[i].symbol_type = Procedure
             /\ \A j \in (i + 1)..Len(table.symbols) :
                   table.symbols[j].symbol_type # Procedure].identifier
    ELSE IF is_some(table.old_table) THEN OpenProcedure(unwrap(table.old_table))
    ELSE "mainblock"

\* C14: at every point of parsing current_proc() is the label of the
\* innermost procedure whose scope is open, and mainblock when no procedure
\* scope is open, also after the scope of a nested or sibling procedure has
\* been exited.
C14_CurrentProcIsInnermostOpenProcedure ==
    par_pc # "idle" =>
        current_proc(par.symbol_table) = OpenProcedure(par.symbol_table)

\* The names a lookup is made with: the identifiers and the temporaries
\* that at most MaxTableOps calls of temp can mint.
LookupNames == TableNames \cup {temp_name(n) : n \in 0..MaxTableOps}

\* C15: exit() on the outermost scope returns None.  On any other scope it
\* returns the enclosing scope with exactly the symbols and the next offset
\* that scope had when enter / enter_proc was called on it, so that every
\* lookup gives what it gave then: the symbols added in the exited scope
\* are no longer found.
C15_ExitEffect ==
    IF Len(tab_entered) = 0
    THEN tab_pc' = "gone"
    ELSE /\ tab_pc' = "ready"
         /\ tab'.symbols = tab_entered[Len(tab_entered)].symbols
         /\ tab'.next_offset = tab_entered[Len(tab_entered)].next_offset
         /\ \A name \in LookupNames :
               get(tab', name) = get(tab_entered[Len(tab_entered)], name)

C15_ExitRestoresEnclosingScope ==
    [][TabStepped("exit") => C15_ExitEffect]_vars

\* exit returned an enclosing scope that holds a symbol, has a next offset
\* above 0 and leaves one of the names unbound.
C15_Witness ==
    /\ tab_pc = "ready"
    /\ is_some(tab_last)
    /\ unwrap(tab_last).op = "exit"
    /\ Len(tab.symbols) > 0
    /\ tab.next_offset > 0
    /\ \E name \in TableNames : is_none(get(tab, name))

(***************************************************************************)
(* SpecBuilder: the calls of CommandBuilder on the builder of the Parser   *)
(* (cb) and on the builder of an ExpressionParser (cb_inner), which        *)
(* parse_expression_tokens hands to cb.push_builder.  The run ends with    *)
(* the two pushes that program() makes before it returns Success.          *)
(***************************************************************************)
MaxBuilderCalls == 5

\* An instruction, a comment line and the empty line.
BuilderLines == {Cmd("movw", <<"SP", "R1">>), Cmd(":", <<"Block">>), Cmd("", <<>>)}

\* The label of the next set_prefix call: each call is given a new label.
BuilderLabel == "$l" \o ToString(Len(cb_set) + Len(cb_inner_set))

CbInit ==
    /\ cb_pc = "open"
    /\ cb = CommandBuilder_new
    /\ cb_inner = CommandBuilder_new
    /\ cb_set = <<>>
    /\ cb_inner_set = <<>>
    /\ PfIdle
    /\ EpIdle
    /\ ParIdle
    /\ TabIdle
    /\ ScIdle
    /\ TbIdle

CbOpen ==
    /\ cb_pc = "open"
    /\ Len(cb.commands) + Len(cb_inner.commands) + Len(cb_set) + Len(cb_inner_set)
           < MaxBuilderCalls

\* Parser::push_command, lines 252-255
BPushCommand ==
    /\ CbOpen
    /\ \E line \in BuilderLines : cb' = push_command(cb, line)
    /\ UNCHANGED <<cb_pc, cb_inner, cb_set, cb_inner_set, pf_vars, ep_vars, par_vars, tab_vars, sc_vars, tb_vars>>

\* Parser::push_prefix, lines 258-260
BSetPrefix ==
    /\ CbOpen
    /\ cb' = set_prefix(cb, BuilderLabel)
    /\ cb_set' = Append(cb_set, BuilderLabel)
    /\ UNCHANGED <<cb_pc, cb_inner, cb_inner_set, pf_vars, ep_vars, par_vars, tab_vars, sc_vars, tb_vars>>

\* Parser::block, lines 304-306: push_useless when a prefix is pending,
\* nothing otherwise.
BPushUseless ==
    /\ CbOpen
    /\ cb' = IF is_some(cb.prefix) THEN push_useless(cb) ELSE cb
    /\ UNCHANGED <<cb_pc, cb_inner, cb_set, cb_inner_set, pf_vars, ep_vars, par_vars, tab_vars, sc_vars, tb_vars>>

\* ExpressionParser::push_command
BInnerPushCommand ==
    /\ CbOpen
    /\ \E line \in BuilderLines : cb_inner' = push_command(cb_inner, line)
    /\ UNCHANGED <<cb_pc, cb, cb_set, cb_inner_set, pf_vars, ep_vars, par_vars, tab_vars, sc_vars, tb_vars>>

\* ExpressionParser::reduce_expression, lines 601 and 651
BInnerSetPrefix ==
    /\ CbOpen
    /\ cb_inner' = set_prefix(cb_inner, BuilderLabel)
    /\ cb_inner_set' = Append(cb_inner_set, BuilderLabel)
    /\ UNCHANGED <<cb_pc, cb, cb_set, pf_vars, ep_vars, par_vars, tab_vars, sc_vars, tb_vars>>

\* Parser::parse_expression_tokens, line 1094: the builder is moved into
\* push_builder; the next expression starts with a new one.
BPushBuilder ==
    /\ cb_pc = "open"
    /\ cb' = push_builder(cb, cb_inner)
    /\ cb_inner' = CommandBuilder_new
    /\ cb_set' = cb_set \o cb_inner_set
    /\ cb_inner_set' = <<>>
    /\ UNCHANGED <<cb_pc, pf_vars, ep_vars, par_vars, tab_vars, sc_vars, tb_vars>>

\* Parser::program, lines 291-293
BClose ==
    /\ cb_pc = "open"
    /\ cb_inner = CommandBuilder_new
    /\ cb' = push_command(push_command(cb, Cmd("inb", <<"$junk">>)), Cmd("end", <<>>))
    /\ cb_pc' = "closed"
    /\ UNCHANGED <<cb_inner, cb_set, cb_inner_set, pf_vars, ep_vars, par_vars, tab_vars, sc_vars, tb_vars>>

CbNext ==
    \/ BPushCommand
    \/ BSetPrefix
    \/ BPushUseless
    \/ BInnerPushCommand
    \/ BInnerSetPrefix
    \/ BPushBuilder
    \/ BClose

SpecBuilder == CbInit /\ [][CbNext]_vars

\* The labels that prefix the lines of a command list, in the order of the
\* lines, followed by the pending prefix.
RECURSIVE LineLabels(_, _)
LineLabels(cmds, i) ==
    IF i > Len(cmds) THEN <<>> ELSE cmds[i].pre \o LineLabels(cmds, i + 1)

BuilderLabels(builder) == LineLabels(builder.commands, 1) \o builder.prefix

IsPrefixOf(s, t) == Len(s) <= Len(t) /\ SubSeq(t, 1, Len(s)) = s

\* C16: under any sequence of push_command, set_prefix, push_useless and
\* push_builder calls the command list only grows by appending, and the
\* labels passed to set_prefix are, in the order they were set, the
\* prefixes of the appended lines followed by the pending prefix: each
\* label is pending or prefixes exactly one line, none is dropped and none
\* is on two lines.  After the last pushes of a successful parse no prefix
\* is pending.
C16_LabelsKept ==
    /\ BuilderLabels(cb) = cb_set
    /\ BuilderLabels(cb_inner) = cb_inner_set
    /\ cb_pc = "closed" => is_none(cb.prefix)

C16_OnlyAppends == IsPrefixOf(cb.commands, cb'.commands)

C16_BuilderKeepsEveryLabel ==
    [][C16_OnlyAppends /\ C16_LabelsKept']_vars

\* A second label was set while one was pending and a builder with a
\* pending prefix was pushed: three labels, two on lines and one pending.
C16_Witness ==
    /\ cb_pc = "open"
    /\ Len(cb_set) = 3
    /\ Len(LineLabels(cb.commands, 1)) = 2
    /\ is_some(cb.prefix)
    /\ cb.prefix = Some("$l2")
    /\ \E i \in 1..Len(cb.commands) : cb.commands[i].pre = <<"$l1">>

\* The lines that are not instructions: a comment `: ...`, the empty line,
\* and the line break followed by a comment that the while statement pushes.
NoInstruction == {":", "", "\n:"}

\* C17: every output line that carries a label prefix is an executable
\* instruction, never a comment line or an empty line, whatever statement
\* follows the point where the label was set.
C17_LabelsOnInstructions ==
    \A i \in 1..Len(ParEmitted) :
        ParEmitted[i].pre # <<>> => ParEmitted[i].op \notin NoInstruction

\* The number of global declarations of a program: the const and var
\* keywords in front of the first proc or begin keyword.
RECURSIVE GlobalDeclarations(_, _)
GlobalDeclarations(tokens, i) ==
    IF i > Len(tokens) THEN 0
    ELSE IF tokens[i].token_type \in {"Keyword(Proc)", "Keyword(Begin)"} THEN 0
    ELSE (IF tokens[i].token_type \in {"Keyword(Const)", "Keyword(Var)"} THEN 1 ELSE 0)
         + GlobalDeclarations(tokens, i + 1)

\* The lines of a successful compilation are laid out around n global
\* initializers: comment, `$junk #1`, the n initializers, `$main movw SP R0`,
\* the addw of 4 * n, and `inb $junk`, `end` last.
LaidOut(out, n) ==
    /\ Len(out) >= n + 6
    /\ out[1] = Comment(<<"Initialize", "junk", "variable", "and", "setup", "the", "stack">>)
    /\ out[2] = LabelledCmd("$junk", "#1", <<>>)
    /\ \A i \in 3..(n + 2) : out[i].op = "movw" /\ out[i].pre = <<>>
    /\ out[n + 3] = LabelledCmd("$main", "movw", <<"SP", "R0">>)
    /\ out[n + 4].op = "addw"
    /\ out[n + 4].args[1] \in {"#" \o ToString(4 * n), "#" \o ToString(4 * n) \o ","}
    /\ out[Len(out) - 1] = Cmd("inb", <<"$junk">>)
    /\ out[Len(out)] = Cmd("end", <<>>)

\* C18: on Success the lines handed to the file writer are, in this order,
\* the initialization comment, `$junk #1`, the initializers of the global
\* const and var declarations, `$main movw SP R0`, the addw that advances SP
\* by 4 * N for the N global declarations, the body, and `inb $junk`, `end`
\* as the last two lines; the initializers of declarations local to a
\* procedure are not among the global ones and are not counted in N.
C18_OutputLayout ==
    par_pc = "success" => LaidOut(par.declarations, GlobalDeclarations(par_tokens, 1))

\* The identifier that no program of the model declares.
Undeclared == "u"

\* The program refers to the undeclared identifier.
RefersToUndeclared == \E i \in 1..Len(par_tokens) : par_tokens[i] = Id(Undeclared)

\* C19: a reference to an identifier with no visible binding aborts the
\* compilation, be it an operand of an expression, the left-hand side of an
\* assignment, the target of `prompt STRING , ID` or the name of a
\* procedure call statement: parse does not return Success and no
\* instruction names the identifier.
C19_UndeclaredReferenceAborts ==
    RefersToUndeclared =>
        /\ par_pc # "success"
        /\ \A i \in 1..Len(ParEmitted) :
              \A k \in 1..Len(ParEmitted[i].args) :
                  ParEmitted[i].args[k] # "$" \o Undeclared

\* The block to be parsed opens with an assignment: begin ID := ...
AssignmentFirst ==
    /\ par_pc \in {"begin", "proc_block"}
    /\ Len(par.tokens) >= 4
    /\ par.tokens[1].token_type = "Keyword(Begin)"
    /\ par.tokens[2].token_type = "Identifier"
    /\ par.tokens[3].token_type = "Assign"

\* The tokens of its right-hand side: up to the first token that ends an
\* expression.
RECURSIVE ExpressionRun(_, _)
ExpressionRun(tokens, i) ==
    IF i > Len(tokens) \/ tokens[i].token_type \in ExpressionEnd THEN <<>>
    ELSE <<tokens[i]>> \o ExpressionRun(tokens, i + 1)

\* The symbol the left-hand side resolves to, and the outcome of the
\* evaluator on the right-hand side.
AssignedSymbol == get(par.symbol_table, par.tokens[2].lexeme)
AssignedValue ==
    Bind(ExpressionParser_new(par.symbol_table, ExpressionRun(par.tokens, 4)), LAMBDA e :
        IF is_none(e) THEN [r |-> "Err", s |-> None]
        ELSE Bind(ExpressionParser_parse(unwrap(e)), LAMBDA r : [r |-> r.r, s |-> r.s]))

\* The number of lines `movw +0@R1 home` in a command list.
RECURSIVE Stores(_, _, _)
Stores(cmds, home, i) ==
    IF i > Len(cmds) THEN 0
    ELSE (IF cmds[i].op = "movw" /\ cmds[i].args = <<"+0@R1", home>> THEN 1 ELSE 0)
         + Stores(cmds, home, i + 1)

\* The left-hand side is a Variable and the result symbol has its value type.
TypesAgree(lhs, f) ==
    /\ lhs.symbol_type.kind = "Variable"
    /\ f.symbol_type.kind \in {"Variable", "Constant"}
    /\ lhs.symbol_type.vt = f.symbol_type.vt

AssignmentChecked(lhs, f) ==
    /\ Stores(ParEmitted', location(lhs), 1) > Stores(ParEmitted, location(lhs), 1)
           => TypesAgree(lhs, f)
    /\ ~TypesAgree(lhs, f) =>
           /\ par_pc' = "unexpected"
           /\ Stores(ParEmitted', location(lhs), 1) = Stores(ParEmitted, location(lhs), 1)

\* C20: an assignment ID := expr is accepted only if ID resolves to a
\* Variable whose value type is the value type of the expression's result
\* symbol; if ID resolves to a Constant or a Procedure, or the value types
\* differ, the rule returns Unexpected and no `movw +0@R1 lhs_home` is
\* appended.
C20_Effect ==
    (AssignmentFirst /\ is_some(AssignedSymbol)) =>
        Bind(AssignedValue, LAMBDA v :
            v.r = "Ok" => AssignmentChecked(unwrap(AssignedSymbol), unwrap(v.s)))

C20_AssignmentTypeChecked == [][C20_Effect]_vars

\* ------------------------------------------------------------------------
\* The scanner of lexer/scanner.rs: Scanner::handle_line and the DFA it runs
\* (the TokenState of scanner.rs). Characters are one-character strings and
\* a lexeme is the sequence of its characters.

MaxLineChars == 3

ScLetters == {"a", "b", "e", "n", "d", "v", "r", "E", "V", "A", "R", "i", "f"}
ScDigits == {"0", "1", "2"}

is_alphabetic(c) == c \in ScLetters
to_digit_is_some(c) == c \in ScDigits

St(name) == [state |-> name]
Accept(action, t) == [state |-> "Accept", action |-> action, t |-> t]
Unaccepted == St("Unaccepted")

\* TokenState::start of scanner.rs
TokenState_start == St("Start")

\* TokenState::next_state of scanner.rs
scanner_next_state(self, input) ==
    CASE self.state = "Start" ->
           IF input = "\n" \/ input = " " THEN St("Start")
           ELSE IF is_alphabetic(input) THEN St("Identifier")
           ELSE IF to_digit_is_some(input)
                THEN IF input = "0" THEN Accept("Accept", "Number")
                     ELSE St("Number")
           ELSE IF input = "\"" THEN St("String")
           ELSE IF input = "." \/ input = ";" THEN Accept("Accept", "Semicolon")
           ELSE IF input = "+" \/ input = "-" \/ input = "*" \/ input = "="
                THEN Accept("Accept", "Invalid")
           ELSE IF input = "/" THEN St("CommentSlashStart")
           ELSE IF input = "{" THEN St("CommentCurly")
           ELSE Unaccepted
      [] self.state = "Identifier" ->
           IF is_alphabetic(input) THEN St("Identifier")
           ELSE IF to_digit_is_some(input) THEN St("Identifier")
           ELSE Accept("AcceptPushback", "Identifier")
      [] self.state = "Number" ->
           IF to_digit_is_some(input) THEN St("Number")
           ELSE Accept("AcceptPushback", "Number")
      [] self.state = "String" ->
           IF input = "\"" THEN Accept("Accept", "String") ELSE St("String")
      [] self.state = "CommentCurly" ->
           IF input = "}" THEN Accept("Ignore", "Invalid") ELSE St("CommentCurly")
      [] self.state = "CommentSlashStart" ->
           IF input = "/" THEN St("CommentSlash") ELSE Unaccepted
      [] self.state = "CommentSlash" ->
           IF input = "\n" THEN Accept("Ignore", "Invalid") ELSE St("CommentSlash")
      [] OTHER -> Unaccepted

\* Scanner::new
Scanner_new == [line_number |-> 0, column_number |-> 0]

\* A token as handle_line builds it.
ScanToken(t, lexeme, line, column) ==
    [token_type |-> t, lexeme |-> lexeme, line |-> line, column |-> column]

\* The keyword test of handle_line (scanner.rs 123-135).
handle_line_keywords ==
    { <<"p","r","o","g","r","a","m">>, <<"c","o","n","s","t">>,
      <<"b","e","g","i","n">>, <<"p","r","i","n","t">>, <<"e","n","d">>,
      <<"d","i","v">>, <<"m","o","d">> }

handle_line_final_type(t, lexeme) ==
    IF t = "Identifier"
    THEN IF lexeme \in handle_line_keywords THEN "Keyword" ELSE "Identifier"
    ELSE t

\* A u32 is written as the signed number with the same 32 bits: n below
\* 2^31 as n, and 2^32 - k as -k. a - b on u32 in a build without overflow
\* checks wraps below zero to 2^32 - (b - a), written a - b.
u32_wrapping_sub(a, b) == a - b

\* a >= b on u32 values written that way.
u32_ge(a, b) == IF (a < 0) = (b < 0) THEN a >= b ELSE a < 0

\* The position update at the end of one iteration of the loop of handle_line.
handle_line_advance(self, c) ==
    IF c = "\n"
    THEN [line_number |-> self.line_number + 1, column_number |-> 0]
    ELSE [self EXCEPT !.column_number = self.column_number + 1]

handle_line_start(tokens) ==
    [token_state |-> TokenState_start, lexeme |-> <<>>, tokens |-> tokens]

\* One iteration of the loop of handle_line on character c. checked says
\* whether the build checks arithmetic overflow (then the subtraction of
\* line 137 panics below zero).
handle_line_iteration(self, l, c, checked) ==
    Bind(scanner_next_state(l.token_state, c), LAMBDA token_state :
      IF token_state.state = "Accept"
      THEN IF token_state.action = "Ignore"
           THEN [panicked |-> FALSE, scanner |-> self,
                 loop |-> handle_line_start(l.tokens)]
           ELSE Bind(IF token_state.action = "Accept"
                     THEN Append(l.lexeme, c) ELSE l.lexeme,
                LAMBDA lexeme :
                  IF checked /\ self.column_number < Len(lexeme)
                  THEN [panicked |-> TRUE, scanner |-> self, loop |-> l]
                  ELSE [panicked |-> FALSE,
                        scanner |-> handle_line_advance(self, c),
                        loop |-> handle_line_start(Append(l.tokens,
                           ScanToken(handle_line_final_type(token_state.t, lexeme),
                                     lexeme, self.line_number,
                                     u32_wrapping_sub(self.column_number,
                                                      Len(lexeme)))))])
      ELSE IF token_state.state = "Unaccepted"
      THEN [panicked |-> FALSE,
            scanner |-> handle_line_advance(self, c),
            loop |-> handle_line_start(Append(l.tokens,
                        ScanToken("Invalid", l.lexeme, self.line_number,
                                  self.column_number)))]
      ELSE [panicked |-> FALSE,
            scanner |-> handle_line_advance(self, c),
            loop |-> [l EXCEPT !.token_state = token_state,
                               !.lexeme = Append(l.lexeme, c)]])

ScAlphabet == {"a", "1", "0", " ", "\n", ";", "+", "/", "#", "\"", "{", "}", "="}

RECURSIVE CharRuns(_, _)
CharRuns(alphabet, n) ==
    IF n = 0 THEN {<<>>}
    ELSE CharRuns(alphabet, n - 1)
           \cup {Append(r, c) : r \in {x \in CharRuns(alphabet, n - 1) : Len(x) = n - 1},
                                c \in alphabet}

\* Longer lines: keywords in several spellings, identifiers next to
\* operators and delimiters, text after a rejected character.
ScSamples ==
    { <<"e","n","d",";">>, <<"E","n","d",";">>, <<"v","a","r"," ">>,
      <<"V","A","R"," ">>, <<"i","f"," ">>, <<"a","+","b"," ">>,
      <<"a","+","b",";">>, <<"a",";">>, <<" ","a",";",";">>,
      <<"#","a",";",";">>, <<"/","a",";",";">>, <<"/",";",";">>,
      <<"a"," ",";",";">>, <<"\"","a","\"",";">>, <<"1","2"," ",";">>,
      <<"a","\n","b","\n">>, <<"/","/","a","\n",";">>,
      <<"{","\n","}",";",";">> }

ScInputs == CharRuns(ScAlphabet, MaxLineChars) \cup ScSamples

\* The lines read_line delivers to the calls of read after the first.
ScLaterLines ==
    ScSamples \cup
    { <<>>, <<"\n">>, <<"a", ";">>, <<"}", ";", ";">>, <<"b", "\"", ";">>,
      <<"+">>, <<";">>, <<"a", "\n">>, <<"/", ";">>, <<"1", ";">> }

\* The calls of read that the loop of read_endless makes.
MaxReads == 2

\* Scanner::new and the first read: read_line delivers a line and
\* handle_line starts on it.
ScInit ==
    /\ sc_pc = "scanning"
    /\ sc_calls = 1
    /\ sc_input \in ScInputs
    /\ sc_i = 1
    /\ sc = Scanner_new
    /\ sc_loop = handle_line_start(<<>>)
    /\ PfIdle
    /\ EpIdle
    /\ ParIdle
    /\ TabIdle
    /\ CbIdle
    /\ TbIdle

ScOthersUnchanged == UNCHANGED <<pf_vars, ep_vars, par_vars, tab_vars, cb_vars, tb_vars>>

ScStep(r) ==
    /\ sc_pc' = IF r.panicked THEN "panicked" ELSE "scanning"
    /\ sc' = r.scanner
    /\ sc_loop' = r.loop
    /\ sc_i' = sc_i + 1

\* One iteration of `for c in chars` of handle_line.
SChar ==
    /\ sc_pc = "scanning"
    /\ sc_i <= Len(sc_input)
    /\ \E checked \in BOOLEAN :
          ScStep(handle_line_iteration(sc, sc_loop, sc_input[sc_i], checked))
    /\ UNCHANGED <<sc_calls, sc_input>>
    /\ ScOthersUnchanged

\* The end of the loop: handle_line returns tokens, read prints them and
\* returns.
SReturn ==
    /\ sc_pc = "scanning"
    /\ sc_i > Len(sc_input)
    /\ sc_pc' = "done"
    /\ UNCHANGED <<sc_calls, sc_input, sc_i, sc, sc_loop>>
    /\ ScOthersUnchanged

\* The next call of Scanner::read, as the loop of read_endless makes it,
\* when read_line is Ok: handle_line starts on the new line with its locals
\* fresh and with the line_number and column_number the Scanner has.
SRead ==
    /\ sc_pc = "done"
    /\ sc_calls < MaxReads
    /\ sc_calls' = sc_calls + 1
    /\ sc_input' \in ScLaterLines
    /\ sc_i' = 1
    /\ sc_loop' = handle_line_start(<<>>)
    /\ sc_pc' = "scanning"
    /\ UNCHANGED sc
    /\ ScOthersUnchanged

\* The next call of Scanner::read when read_line is Err: the error is
\* printed, handle_line is not called and read returns.
SReadError ==
    /\ sc_pc = "done"
    /\ sc_calls < MaxReads
    /\ sc_calls' = sc_calls + 1
    /\ sc_input' = <<>>
    /\ sc_i' = 1
    /\ sc_loop' = handle_line_start(<<>>)
    /\ sc_pc' = "done"
    /\ UNCHANGED sc
    /\ ScOthersUnchanged

ScNext == SChar \/ SReturn \/ SRead \/ SReadError

SpecScanner == ScInit /\ [][ScNext]_vars

\* ------------------------------------------------------------------------
\* The token builder of lexer/token.rs: TokenState::next_state and
\* TokenBuilder::push_char with final_type and keyword_for_token.

MaxBuilderChars == 3

equal_start_always_assign(c) == Accept("AcceptPushback", "Assign")

\* The arm of TokenState::next_state for EqualStart.
equal_start_next_state(c) ==
    IF c = "=" THEN Accept("Accept", "EqualTo")
    ELSE Accept("AcceptPushback", "Assign")

\* TokenState::next_state of token.rs
next_state(self, c) ==
    CASE self.state = "Start" ->
           IF c = "\r" \/ c = "\n" \/ c = " " THEN St("Start")
           ELSE IF is_alphabetic(c) THEN St("Identifier")
           ELSE IF to_digit_is_some(c)
                THEN IF c = "0" THEN Accept("Accept", "Number") ELSE St("Number")
           ELSE IF c = "\"" THEN St("String")
           ELSE IF c = "." THEN Accept("Accept", "Period")
           ELSE IF c = ";" THEN Accept("Accept", "Semicolon")
           ELSE IF c = "," THEN Accept("Accept", "Comma")
           ELSE IF c = "+" THEN Accept("Accept", "Plus")
           ELSE IF c = "-" THEN Accept("Accept", "Minus")
           ELSE IF c = "*" THEN Accept("Accept", "Star")
           ELSE IF c = ">" THEN St("GTStart")
           ELSE IF c = "<" THEN St("LTStart")
           ELSE IF c = "=" THEN St("EqualStart")
           ELSE IF c = ":" THEN Accept("Accept", "Colon")
           ELSE IF c = "/" THEN St("CommentSlashStart")
           ELSE IF c = "{" THEN St("CommentCurly")
           ELSE IF c = "(" THEN Accept("Accept", "LeftParen")
           ELSE IF c = ")" THEN Accept("Accept", "RightParen")
           ELSE Unaccepted
      [] self.state = "Identifier" ->
           IF is_alphabetic(c) \/ to_digit_is_some(c) THEN St("Identifier")
           ELSE Accept("AcceptPushback", "Identifier")
      [] self.state = "Number" ->
           IF to_digit_is_some(c) THEN St("Number")
           ELSE Accept("AcceptPushback", "Number")
      [] self.state = "String" ->
           IF c = "\"" THEN Accept("Accept", "String") ELSE St("String")
      [] self.state = "CommentCurly" ->
           IF c = "}" THEN St("Start") ELSE St("CommentCurly")
      [] self.state = "CommentSlashStart" ->
           IF c = "/" THEN St("CommentSlash") ELSE Unaccepted
      [] self.state = "CommentSlash" ->
           IF c = "\n" THEN St("Start") ELSE St("CommentSlash")
      [] self.state = "GTStart" ->
           IF c = "=" THEN Accept("Accept", "GreaterThanOrEqual")
           ELSE Accept("AcceptPushback", "GreaterThan")
      [] self.state = "LTStart" ->
           IF c = "=" THEN Accept("Accept", "LessThanOrEqual")
           ELSE IF c = ">" THEN Accept("Accept", "NotEqualTo")
           ELSE Accept("AcceptPushback", "LessThan")
      [] self.state = "EqualStart" -> equal_start_next_state(c)
      [] OTHER -> Unaccepted

\* char::to_lowercase on the letters of the model.
to_lowercase_char(c) ==
    CASE c = "E" -> "e"
      [] c = "V" -> "v"
      [] c = "A" -> "a"
      [] c = "R" -> "r"
      [] OTHER -> c

\* str::to_lowercase
to_lowercase(lexeme) == [i \in 1..Len(lexeme) |-> to_lowercase_char(lexeme[i])]

\* TokenBuilder::keyword_for_token
keyword_for_token(lexeme) ==
      CASE lexeme = <<"p", "r", "o", "g", "r", "a", "m">> -> Some("Program")
        [] lexeme = <<"c", "o", "n", "s", "t">> -> Some("Const")
        [] lexeme = <<"b", "e", "g", "i", "n">> -> Some("Begin")
        [] lexeme = <<"p", "r", "i", "n", "t">> -> Some("Print")
        [] lexeme = <<"e", "n", "d">> -> Some("End")
        [] lexeme = <<"d", "i", "v">> -> Some("Div")
        [] lexeme = <<"m", "o", "d">> -> Some("Mod")
        [] lexeme = <<"v", "a", "r">> -> Some("Var")
        [] lexeme = <<"i", "n", "t">> -> Some("Int")
        [] lexeme = <<"b", "o", "o", "l", "e", "a", "n">> -> Some("Bool")
        [] lexeme = <<"p", "r", "o", "c">> -> Some("Proc")
        [] lexeme = <<"i", "f">> -> Some("If")
        [] lexeme = <<"t", "h", "e", "n">> -> Some("Then")
        [] lexeme = <<"e", "l", "s", "e">> -> Some("Else")
        [] lexeme = <<"w", "h", "i", "l", "e">> -> Some("While")
        [] lexeme = <<"d", "o">> -> Some("Do")
        [] lexeme = <<"p", "r", "o", "m", "p", "t">> -> Some("Prompt")
        [] lexeme = <<"a", "n", "d">> -> Some("And")
        [] lexeme = <<"o", "r">> -> Some("Or")
        [] lexeme = <<"n", "o", "t">> -> Some("Not")
        [] lexeme = <<"t", "r", "u", "e">> -> Some("True")
        [] lexeme = <<"f", "a", "l", "s", "e">> -> Some("False")
        [] OTHER -> None

\* TokenBuilder::final_type; Keyword(k) is written as the parser's tokens
\* write it.
final_type(self) ==
    IF self.token_state.state = "Accept"
    THEN IF self.token_state.t = "Identifier"
         THEN Bind(keyword_for_token(to_lowercase(self.lexeme)), LAMBDA k :
                IF is_some(k) THEN "Keyword(" \o unwrap(k) \o ")" ELSE "Identifier")
         ELSE self.token_state.t
    ELSE "Invalid"

\* TokenBuilder::new
TokenBuilder_new(column, line) ==
    [token_state |-> St("Start"), line |-> line, column |-> column, lexeme |-> <<>>]

\* String::pop
pop(lexeme) == IF Len(lexeme) = 0 THEN lexeme ELSE SubSeq(lexeme, 1, Len(lexeme) - 1)

\* TokenBuilder::push_char: the builder after the call, the Option<Token>
\* and the pushback flag it returns.
push_char(self, c) ==
    Bind(next_state(self.token_state, c), LAMBDA token_state :
    Bind([self EXCEPT !.token_state = token_state,
                      !.lexeme = IF token_state.state = "Start" THEN <<>>
                                 ELSE Append(self.lexeme, c)],
      LAMBDA pushed :
        IF token_state.state = "Accept"
        THEN Bind(IF token_state.action = "AcceptPushback"
                  THEN [pushed EXCEPT !.lexeme = pop(pushed.lexeme)] ELSE pushed,
               LAMBDA b :
                 [self |-> b,
                  token |-> Some(ScanToken(final_type(b), b.lexeme, b.line, b.column)),
                  pushback |-> token_state.action = "AcceptPushback"])
        ELSE IF token_state.state = "Unaccepted"
        THEN [self |-> pushed,
              token |-> Some(ScanToken("Invalid", pushed.lexeme, pushed.line,
                                       pushed.column)),
              pushback |-> FALSE]
        ELSE [self |-> pushed, token |-> None, pushback |-> FALSE]))

TbAlphabet == {"a", "1", "0", " ", ";", "=", ":", ">", "<", "/", "#", "\"", "+"}

\* Longer runs: keywords and identifiers in several spellings.
TbSamples ==
    { <<"e","n","d",";">>, <<"E","n","d",";">>, <<"v","a","r"," ">>,
      <<"V","A","R"," ">>, <<"i","f"," ">>, <<"e","n","d","e"," ">>,
      <<"e","n","d","1",";">>, <<"{","a","}",";">>, <<"/","/","a","\n",";">>,
      <<"\"","a"," ","\"">>, <<"1","2","0",";">>, <<" "," "," ",":","=">> }

TbInputs == CharRuns(TbAlphabet, MaxBuilderChars) \cup TbSamples

\* The Strings given to TokenBuilder::lexeme.
TbLexemes == { <<"e", "d">>, <<>> }

\* TokenBuilder::line
TokenBuilder_line(self, line) == [self EXCEPT !.line = line]

\* TokenBuilder::column
TokenBuilder_column(self, column) == [self EXCEPT !.column = column]

\* TokenBuilder::lexeme
TokenBuilder_lexeme(self, lexeme) == [self EXCEPT !.lexeme = lexeme]

\* The positions given to TokenBuilder::new.
TbPositions == 1..2

TbInit ==
    /\ tb_pc = "pushing"
    /\ tb_input \in TbInputs
    /\ tb_i = 1
    /\ \E column \in TbPositions, line \in TbPositions :
          tb = TokenBuilder_new(column, line)
    /\ tb_lexeme_set = FALSE
    /\ tb_out = None
    /\ PfIdle
    /\ EpIdle
    /\ ParIdle
    /\ TabIdle
    /\ CbIdle
    /\ ScIdle

TbOthersUnchanged == UNCHANGED <<pf_vars, ep_vars, par_vars, tab_vars, cb_vars, sc_vars>>

TbPushed(r) ==
    /\ tb' = r.self
    /\ tb_out' = IF is_some(r.token)
                 THEN Some([token |-> unwrap(r.token), pushback |-> r.pushback])
                 ELSE None
    /\ tb_pc' = IF is_some(r.token) THEN "token" ELSE "pushing"
    /\ tb_i' = tb_i + 1

\* One push_char call on a builder that has not returned a token yet.
TPush ==
    /\ tb_pc = "pushing"
    /\ tb_i <= Len(tb_input)
    /\ TbPushed(push_char(tb, tb_input[tb_i]))
    /\ UNCHANGED <<tb_input, tb_lexeme_set>>
    /\ TbOthersUnchanged

\* A call of TokenBuilder::line between two pushes.
TLine ==
    /\ tb_pc = "pushing"
    /\ \E line \in TbPositions : tb' = TokenBuilder_line(tb, line)
    /\ UNCHANGED <<tb_pc, tb_input, tb_i, tb_lexeme_set, tb_out>>
    /\ TbOthersUnchanged

\* A call of TokenBuilder::column between two pushes.
TColumn ==
    /\ tb_pc = "pushing"
    /\ \E column \in TbPositions : tb' = TokenBuilder_column(tb, column)
    /\ UNCHANGED <<tb_pc, tb_input, tb_i, tb_lexeme_set, tb_out>>
    /\ TbOthersUnchanged

\* A call of TokenBuilder::lexeme between two pushes.
TLexeme ==
    /\ tb_pc = "pushing"
    /\ \E lexeme \in TbLexemes : tb' = TokenBuilder_lexeme(tb, lexeme)
    /\ tb_lexeme_set' = TRUE
    /\ UNCHANGED <<tb_pc, tb_input, tb_i, tb_out>>
    /\ TbOthersUnchanged

\* The characters ran out before push_char returned a token.
TExhausted ==
    /\ tb_pc = "pushing"
    /\ tb_i > Len(tb_input)
    /\ tb_pc' = "exhausted"
    /\ UNCHANGED <<tb_input, tb_i, tb, tb_lexeme_set, tb_out>>
    /\ TbOthersUnchanged

TbNext == TPush \/ TLine \/ TColumn \/ TLexeme \/ TExhausted

SpecToken == TbInit /\ [][TbNext]_vars

\* ------------------------------------------------------------------------
\* Claims about the scanner.

ScanTokens == sc_loop.tokens

\* C21: for any input string, also one that ends inside an unterminated
\* string literal, a block comment or a partly read identifier or number,
\* the scan terminates and the token sequence it returns ends with an
\* end-of-file token.
C21_ScanEndsWithEndOfFile ==
    sc_pc = "done" =>
        /\ Len(ScanTokens) > 0
        /\ ScanTokens[Len(ScanTokens)].token_type = "EOFile"

\* The 1-based line and column of the character at index i of the input.
LineOf(input, i) == 1 + Cardinality({j \in 1..(i - 1) : input[j] = "\n"})
ColumnOf(input, i) ==
    i - (CHOOSE j \in 0..(i - 1) :
            /\ (j = 0 \/ input[j] = "\n")
            /\ \A k \in (j + 1)..(i - 1) : input[k] # "\n")

\* The lexeme of token t is the text at index i of the input and t carries
\* the position of that index.
PositionedAt(input, t, i) ==
    /\ i + Len(t.lexeme) - 1 <= Len(input)
    /\ SubSeq(input, i, i + Len(t.lexeme) - 1) = t.lexeme
    /\ t.line = LineOf(input, i)
    /\ t.column = ColumnOf(input, i)

\* C22: every emitted token has line >= 1 and column >= 1, its (line,
\* column) is the position of the first character of its lexeme (compared
\* here for the first text the scanner is given, where the position in the
\* text is the position in the source), and the column computation never
\* goes below the start of the line.
C22_TokenPositions ==
    /\ sc_pc # "panicked"
    /\ \A k \in 1..Len(ScanTokens) :
          /\ u32_ge(ScanTokens[k].line, 1)
          /\ u32_ge(ScanTokens[k].column, 1)
          /\ sc_calls = 1 =>
                \E i \in 1..Len(sc_input) : PositionedAt(sc_input, ScanTokens[k], i)

\* ------------------------------------------------------------------------
\* Claims about the token builder.

BuiltToken == unwrap(tb_out).token

\* The builder returned a token for a run that starts with the characters
\* of `first`.
BuiltFrom(first) ==
    /\ tb_pc = "token"
    /\ Len(tb_input) >= Len(first)
    /\ SubSeq(tb_input, 1, Len(first)) = first

\* C23 as stated: `:=` is scanned to the Assign token that the const and
\* assignment rules expect after the identifier, and `==` to EqualTo.
C23_ColonEqualsIsAssign ==
    /\ BuiltFrom(<<":", "=">>) =>
          /\ BuiltToken.token_type = "Assign"
          /\ BuiltToken.lexeme = <<":", "=">>
    /\ BuiltFrom(<<"=", "=">>) =>
          /\ BuiltToken.token_type = "EqualTo"
          /\ BuiltToken.lexeme = <<"=", "=">>

\* C23 amended: the assignment operator of the scanner is `=`. A `=`
\* followed by another `=` is EqualTo with lexeme `==`; a `=` followed by
\* any other character is Assign with lexeme `=` and that character is
\* pushed back; the decision is taken on the one character after the `=`.
\* A `:` is a Colon token of its own, whatever follows. The lexemes are
\* those of a builder whose lexeme the caller did not overwrite.
C23_EqualsIsAssign ==
    /\ BuiltFrom(<<"=">>) =>
          /\ tb_i = 3
          /\ IF tb_input[2] = "="
             THEN /\ BuiltToken.token_type = "EqualTo"
                  /\ ~tb_lexeme_set => BuiltToken.lexeme = <<"=", "=">>
                  /\ ~unwrap(tb_out).pushback
             ELSE /\ BuiltToken.token_type = "Assign"
                  /\ ~tb_lexeme_set => BuiltToken.lexeme = <<"=">>
                  /\ unwrap(tb_out).pushback
    /\ BuiltFrom(<<":">>) =>
          /\ tb_i = 2
          /\ BuiltToken.token_type = "Colon"
          /\ ~tb_lexeme_set => BuiltToken.lexeme = <<":">>
          /\ ~unwrap(tb_out).pushback
    /\ (tb_pc = "exhausted" /\ tb_input = <<"=">>) => tb.token_state = St("EqualStart")

C23_Witness ==
    /\ BuiltFrom(<<"=", "1">>)
    /\ ~tb_lexeme_set
    /\ BuiltToken.token_type = "Assign"
    /\ BuiltToken.lexeme = <<"=">>

\* The tokens the scanner's DFA accepted as identifiers.
IdentifierTokens ==
    {k \in 1..Len(ScanTokens) :
        ScanTokens[k].token_type \notin {"Number", "String", "Semicolon", "Invalid"}}

\* The identifier text of a lexeme of handle_line, which starts with the
\* blanks and newlines skipped before it.
RECURSIVE Unblanked(_)
Unblanked(lexeme) ==
    IF Len(lexeme) > 0 /\ lexeme[1] \in {" ", "\n"} THEN Unblanked(Tail(lexeme))
    ELSE lexeme

\* C24: an accepted identifier lexeme becomes a keyword token exactly when
\* its lowercased text is one of the 22 keywords, whatever the case it is
\* written in; every other identifier lexeme stays Identifier.
C24_KeywordsCaseInsensitive ==
    \A k \in IdentifierTokens :
        Bind(keyword_for_token(to_lowercase(Unblanked(ScanTokens[k].lexeme))),
             LAMBDA kw :
               IF is_some(kw)
               THEN ScanTokens[k].token_type \in {"Keyword", "Keyword(" \o unwrap(kw) \o ")"}
               ELSE ScanTokens[k].token_type = "Identifier")

TokenTypes(tokens) == [k \in 1..Len(tokens) |-> tokens[k].token_type]

Semicolons(n) == [k \in 1..n |-> ";"]
SemicolonTokens(n) == [k \in 1..n |-> "Semicolon"]

\* The line is the rejected text followed by n semicolons.
RejectedThenSemicolons(rejected, n) ==
    /\ sc_pc = "done"
    /\ sc_input = rejected \o Semicolons(n)

\* C25: when the DFA rejects (an unrecognized character at Start, or a `/`
\* not followed by `/`), an Invalid token is emitted and scanning continues
\* from Start, so the well-formed tokens after the offending text, here
\* semicolons, are all emitted in order.
C25_ScanContinuesAfterReject ==
    \A n \in 1..MaxLineChars :
        /\ RejectedThenSemicolons(<<"#">>, n) =>
              TokenTypes(ScanTokens) = <<"Invalid">> \o SemicolonTokens(n)
        /\ RejectedThenSemicolons(<<"/">>, n) =>
              TokenTypes(ScanTokens) = <<"Invalid">> \o SemicolonTokens(n)

RECURSIVE Lexemes(_)
Lexemes(tokens) ==
    IF tokens = <<>> THEN <<>> ELSE Head(tokens).lexeme \o Lexemes(Tail(tokens))

\* A line of identifier, number and operator characters with no blanks,
\* comments or rejected characters, closed by a semicolon.
TokensOnly(input) ==
    /\ Len(input) > 0
    /\ \A i \in 1..Len(input) : input[i] \in {"a", "b", "1", "0", "+", "=", ";"}
    /\ input[Len(input)] = ";"

\* C30: when a token is accepted with the Pushback action the delimiting
\* character is not part of its lexeme and is fed again to Start, so no
\* input character is dropped between tokens: the lexemes of the tokens of
\* a line without blanks add up to the line, and `a;` gives Identifier a,
\* Semicolon.
C30_PushbackKeepsCharacter ==
    /\ (sc_pc = "done" /\ TokensOnly(sc_input)) => Lexemes(ScanTokens) = sc_input
    /\ (sc_pc = "done" /\ sc_input = <<"a", ";">>) =>
          /\ TokenTypes(ScanTokens) = <<"Identifier", "Semicolon">>
          /\ ScanTokens[1].lexeme = <<"a">>

\* ------------------------------------------------------------------------
\* Claims about procedure invocations and one complete program.

StatementOpeners ==
    {"Keyword(Begin)", "Semicolon", "Keyword(Then)", "Keyword(Else)", "Keyword(Do)"}

\* The positions of the parameterless invocation statements of a program:
\* an identifier that opens a statement and is followed by `;` or `end`.
Invocations(tokens) ==
    {i \in 2..(Len(tokens) - 1) :
        /\ tokens[i].token_type = "Identifier"
        /\ tokens[i - 1].token_type \in StatementOpeners
        /\ tokens[i + 1].token_type \in {"Semicolon", "Keyword(End)"}}

\* The names invoked, in source order.
RECURSIVE InvokedFrom(_, _)
InvokedFrom(tokens, i) ==
    IF i > Len(tokens) THEN <<>>
    ELSE (IF i \in Invocations(tokens) THEN <<tokens[i].lexeme>> ELSE <<>>)
             \o InvokedFrom(tokens, i + 1)

IsCall(cmd) == cmd.op = "call"

\* C26: in a successful compilation the emitted `call` instructions are, in
\* order, one `call #0 $id` for each parameterless invocation statement,
\* whether `;` or `end` follows the identifier.
C26_OneCallPerInvocation ==
    par_pc = "success" =>
        Bind(SelectSeq(ParEmitted, IsCall), LAMBDA calls :
        Bind(InvokedFrom(par_tokens, 1), LAMBDA invoked :
            /\ Len(calls) = Len(invoked)
            /\ \A k \in 1..Len(calls) :
                  calls[k].args = <<"#0", "$" \o invoked[k]>>))

\* A successful compilation with an invocation followed by `;` and one
\* followed by `end`.
C26_Witness ==
    /\ par_pc = "success"
    /\ \E i, j \in Invocations(par_tokens) :
          /\ par_tokens[i + 1].token_type = "Semicolon"
          /\ par_tokens[j + 1].token_type = "Keyword(End)"

\* The text of an output line without its label: operation and operands.
Instruction(cmd) == <<cmd.op>> \o cmd.args

IsInstruction(cmd) == cmd.op \notin NoInstruction

\* The instructions of the output from the line labelled `label` on.
RECURSIVE InstructionsFrom(_, _, _)
InstructionsFrom(out, label, i) ==
    IF i > Len(out) THEN <<>>
    ELSE IF out[i].pre = <<label>>
    THEN [k \in 1..Len(SelectSeq(SubSeq(out, i, Len(out)), IsInstruction)) |->
             Instruction(SelectSeq(SubSeq(out, i, Len(out)), IsInstruction)[k])]
    ELSE InstructionsFrom(out, label, i + 1)

\* The instructions between `$main movw SP R0` and the `addw` that moves SP
\* past the globals.
GlobalInitializers(out) ==
    Bind(InstructionsFrom(out, "$main", 1), LAMBDA ins :
        SubSeq(ins, 2, (CHOOSE k \in 1..Len(ins) :
                            /\ ins[k][1] = "addw"
                            /\ \A j \in 1..(k - 1) : ins[j][1] # "addw") - 1))

\* seq holds the lines of sub in their order, other lines allowed between.
RECURSIVE HasInOrder(_, _)
HasInOrder(seq, sub) ==
    IF sub = <<>> THEN TRUE
    ELSE IF seq = <<>> THEN FALSE
    ELSE IF Head(seq) = Head(sub) THEN HasInOrder(Tail(seq), Tail(sub))
    ELSE HasInOrder(Tail(seq), sub)

ConstantSumCompiled ==
    /\ par_tokens = ConstantSumProgram
    /\ par_pc \in {"success", "unexpected", "incorrect", "panic"}

ConstantSumDeclarations ==
    GlobalInitializers(ParEmitted)
        = << <<"movw", "#2", "+0@R0">>, <<"movw", "#0", "+4@R0">> >>

\* C27 as stated: compiling `program p; const a := 2; var b : int; begin
\* b := a + 3 end.` succeeds, the global declarations emit `movw #2 +0@R0`
\* and `movw #0 +4@R0`, and the body emits `movw SP R1`, the literal 3 into
\* +0@R1, `addw +0@R0 +0@R1` and `movw +0@R1 +4@R0`, in that order.
C27_ConstantSumAsStated ==
    ConstantSumCompiled =>
        /\ par_pc = "success"
        /\ ConstantSumDeclarations
        /\ HasInOrder(InstructionsFrom(ParEmitted, "$mainblock", 1),
                      << <<"movw", "SP", "R1">>,
                         <<"movw", "#3", "+0@R1">>,
                         <<"addw", "+0@R0", "+0@R1">>,
                         <<"movw", "+0@R1", "+4@R0">> >>)

\* C27 amended: the compilation succeeds with the same global declarations,
\* and the body is `movw SP R1`, the literal 3 into +0@R1, the constant
\* copied into a second temporary `movw +0@R0 +4@R1`, `addw +0@R1 +4@R1`,
\* the sum moved to the top of the scratch area `movw +4@R1 +0@R1`, and the
\* store `movw +0@R1 +4@R0`, followed by `inb $junk` and `end`.
C27_ConstantSumCode ==
    ConstantSumCompiled =>
        /\ par_pc = "success"
        /\ ConstantSumDeclarations
        /\ InstructionsFrom(ParEmitted, "$mainblock", 1)
             = << <<"movw", "SP", "R1">>,
                  <<"movw", "#3", "+0@R1">>,
                  <<"movw", "+0@R0", "+4@R1">>,
                  <<"addw", "+0@R1", "+4@R1">>,
                  <<"movw", "+4@R1", "+0@R1">>,
                  <<"movw", "+0@R1", "+4@R0">>,
                  <<"inb", "$junk">>,
                  <<"end">> >>

C27_Witness ==
    /\ par_tokens = ConstantSumProgram
    /\ par_pc = "success"

\* ------------------------------------------------------------------------
\* Claims about single identifiers and incomplete token runs.

EpEnded == ep_pc \in {"none", "ok", "err", "panic"}

\* The token run is one identifier and the table the evaluator was given
\* binds it.
SingleDeclaredIdentifier ==
    /\ Len(ep_tokens) = 1
    /\ ep_tokens[1].token_type = "Identifier"
    /\ is_some(InnermostBinding(Scopes(ep_table0), ep_tokens[1].lexeme, 1))

\* C28: an expression that is a single declared identifier generates no
\* commands: the evaluation succeeds, returns the identifier's own symbol
\* and the command sequence is empty.
C28_SingleIdentifierNoCommands ==
    (EpEnded /\ SingleDeclaredIdentifier) =>
        /\ ep_pc = "ok"
        /\ ep_result = InnermostBinding(Scopes(ep_table0), ep_tokens[1].lexeme, 1)
        /\ ep.commands.commands = <<>>
        /\ ep.commands.prefix = <<>>

C28_Witness ==
    /\ ep_pc = "ok"
    /\ SingleDeclaredIdentifier
    /\ ep_tokens[1].lexeme = "a"
    /\ unwrap(ep_result).identifier = "a"

IsOperandToken(t) ==
    t.token_type \in {"Identifier", "Number", "Keyword(True)", "Keyword(False)"}

\* operand (operator operand)*
CompleteExpression(tokens) ==
    /\ Len(tokens) % 2 = 1
    /\ \A i \in 1..Len(tokens) :
          IF i % 2 = 1 THEN IsOperandToken(tokens[i])
          ELSE tokens[i] \in ExprOperatorTokens

\* C29: a token run that is not a complete expression never produces a
\* result symbol: the empty run, a lone operator, a run that ends with an
\* operator whose right operand is missing, and every other incomplete run
\* end without a result.
C29_IncompleteRunHasNoResult ==
    (EpEnded /\ ~CompleteExpression(ep_tokens)) =>
        /\ ep_pc # "ok"
        /\ ep_result = None

(***************************************************************************)
(* Claims about the token buffer.                                          *)
(***************************************************************************)

\* C31: at every stage of a parse that has not panicked, the tokens consumed
\* so far followed by the remaining token buffer are the original token
\* sequence: a backtrack puts back only the token that was removed last, and
\* no token is lost or read twice.
C31_BufferIntegrity ==
    par_pc \notin {"idle", "panic"} => par.consumed \o par.tokens = par_tokens

(***************************************************************************)
(* Claims about the homes of temporaries.                                  *)
(***************************************************************************)

\* The symbols of the evaluator's innermost scope, temporaries and declared.
EpSymbols == {ep.table.symbols[i] : i \in 1..Len(ep.table.symbols)}
EpTemporaries == {s \in EpSymbols : is_temp(s)}

\* C32: the k-th temporary minted in one expression ($k, counted from 0) has
\* its home at offset 4*k from the scratch register R1, in global and in
\* procedure scope, and no declared symbol of the scope has the same home.
C32_TemporaryHomes ==
    ep_pc \in {"parse", "reduce", "ok", "err"} =>
        \A s \in EpTemporaries :
            /\ \E k \in 0..(s.offset \div 4) :
                  /\ s.identifier = temp_name(k)
                  /\ location(s) = "+" \o ToString(4 * k) \o "@R1"
            /\ \A d \in EpSymbols \ EpTemporaries : location(d) # location(s)

(***************************************************************************)
(* Claims about the precedence order.                                      *)
(***************************************************************************)

\* What the three-way comparison of x with y is to answer.
PrecedenceAnswer(x, y) ==
    IF x.tag = "Operator" /\ y.tag = "Operator"
    THEN IF PrecedenceClass(x.tt) > PrecedenceClass(y.tt) THEN Some("Greater") ELSE Some("Less")
    ELSE IF x.tag = "Operand" /\ y.tag = "Operator" THEN Some("Greater")
    ELSE IF x.tag = "Operator" /\ y.tag = "Operand" THEN Some("Less")
    ELSE partial_cmp(x, y)

\* C33: for every two atoms of an expression the three-way comparison is
\* defined; an operator of a higher class compares Greater with one of a lower
\* class and the lower one Less, operators of one class compare Less, and an
\* operand compares Greater with every operator while the operator compares
\* Less with the operand.
C33_PrecedenceConsistent ==
    \A i, j \in 1..Len(pf_in) :
        /\ is_some(partial_cmp(pf_in[i], pf_in[j]))
        /\ partial_cmp(pf_in[i], pf_in[j]) = PrecedenceAnswer(pf_in[i], pf_in[j])

(***************************************************************************)
(* Claims about the code of if and while statements.                       *)
(***************************************************************************)

\* The number of tokens of type t in the program.
CountTokens(t) ==
    Cardinality({i \in 1..Len(par_tokens) : par_tokens[i].token_type = t})

\* The places of the program where `then` or `do` is directly followed by
\* `end`: the statement the grammar requires there is missing.
MissingStatementAt ==
    {i \in 1..(Len(par_tokens) - 1) :
        /\ par_tokens[i].token_type \in {"Keyword(Then)", "Keyword(Do)"}
        /\ par_tokens[i + 1].token_type = "Keyword(End)"}

\* The lines of out that are the instruction op with the one target label.
BranchLines(out, op, label) ==
    {i \in 1..Len(out) : out[i].op = op /\ out[i].args = <<label>>}

\* The k-th line of a set of lines, counted from 1.
NthLine(lines, k) == CHOOSE i \in lines : Cardinality({j \in lines : j < i}) = k - 1

IsMovwSpR1(cmd) == cmd.op = "movw" /\ cmd.args = <<"SP", "R1">>
IsUseless(cmd) == cmd.op = "movw" /\ cmd.args = <<"R0", "R0">>
IsExpressionComment(cmd) == cmd.op = ":" /\ Len(cmd.args) > 0 /\ cmd.args[1] = "expression:"

\* The line that begins the evaluation of the guard whose branch is line b:
\* the line before the last expression comment above b.
GuardStart(out, b) ==
    (CHOOSE c \in 1..(b - 1) :
        /\ IsExpressionComment(out[c])
        /\ \A d \in (c + 1)..(b - 1) : ~IsExpressionComment(out[d])) - 1

IfElse(n) == "$if_else" \o ToString(n)
EndIf(n) == "$end_if" \o ToString(n)

\* The label numbers of if statements that occur in out, each as often as
\* out branches to its else label.
IfOccurrences(out) ==
    {[n |-> n, k |-> k] :
        n \in {m \in 0..CountTokens("Keyword(If)") : BranchLines(out, "beq", IfElse(m)) # {}},
        k \in 1..CountTokens("Keyword(If)")}

\* The lines of the k-th if statement with label number n: guard start g,
\* branch b, jump j, else label e, end label f.
IfLines(out, n, k) ==
    [n |-> n,
     b |-> NthLine(BranchLines(out, "beq", IfElse(n)), k),
     g |-> GuardStart(out, NthLine(BranchLines(out, "beq", IfElse(n)), k)),
     j |-> NthLine(BranchLines(out, "jmp", EndIf(n)), k),
     e |-> NthLine(LabelLines(out, IfElse(n)), k),
     f |-> NthLine(LabelLines(out, EndIf(n)), k)]

IfStatements(out) ==
    {IfLines(out, o.n, o.k) :
        o \in {p \in IfOccurrences(out) :
                 p.k <= Cardinality(BranchLines(out, "beq", IfElse(p.n)))}}

\* guard, cmpw, beq, then, jmp, else label, else, end label.
IfInOrder(out, s) ==
    /\ s.g >= 1 /\ IsMovwSpR1(out[s.g])
    /\ out[s.b - 1].op = "cmpw" /\ out[s.b - 1].args[1] = "#0"
    /\ s.g < s.b - 1 /\ s.b < s.j /\ s.j < s.e /\ s.e < s.f

\* s2 begins after s1 began: it lies behind s1, in its then-statement or in
\* its else-statement, and inside s1 it has another label number.
IfNested(s1, s2) ==
    s1.b < s2.b =>
        \/ s1.f <= s2.g
        \/ s1.b < s2.g /\ s2.f <= s1.j /\ s1.n # s2.n
        \/ s1.e <= s2.g /\ s2.f <= s1.f /\ s1.n # s2.n

IfCodeOf(out) ==
    /\ \A n \in 0..CountTokens("Keyword(If)") :
          /\ Cardinality(BranchLines(out, "jmp", EndIf(n)))
                = Cardinality(BranchLines(out, "beq", IfElse(n)))
          /\ Cardinality(LabelLines(out, IfElse(n)))
                = Cardinality(BranchLines(out, "beq", IfElse(n)))
          /\ Cardinality(LabelLines(out, EndIf(n)))
                = Cardinality(BranchLines(out, "beq", IfElse(n)))
    /\ Cardinality(IfStatements(out)) = CountTokens("Keyword(If)")
    /\ \A s \in IfStatements(out) : IfInOrder(out, s)
    /\ \A s1, s2 \in IfStatements(out) : IfNested(s1, s2)
    /\ Cardinality({s \in IfStatements(out) : IsUseless(out[s.e]) /\ s.f = s.e + 1})
          = CountTokens("Keyword(If)") - CountTokens("Keyword(Else)")

\* C34: in the output of a successful compilation every if statement with
\* label number n has, in this order, its guard code, `cmpw #0 home`,
\* `beq $if_else{n}`, the then-statement, `jmp $end_if{n}`, a line that carries
\* $if_else{n} (a `movw R0 R0` when there is no else), the else-statement and a
\* line that carries $end_if{n}; if statements inside one another have
\* different numbers and their lines are properly nested.
C34_IfCode == par_pc = "success" => IfCodeOf(ParEmitted)

BWhile(n) == "$b_while" \o ToString(n)
EWhile(n) == "$e_while" \o ToString(n)

\* The lines of the k-th while statement with label number n: begin label s,
\* branch b, jump j, end label e.
WhileLines(out, n, k) ==
    [n |-> n,
     s |-> NthLine(LabelLines(out, BWhile(n)), k),
     b |-> NthLine(BranchLines(out, "beq", EWhile(n)), k),
     j |-> NthLine(BranchLines(out, "jmp", BWhile(n)), k),
     e |-> NthLine(LabelLines(out, EWhile(n)), k)]

WhileStatements(out) ==
    {WhileLines(out, o.n, o.k) :
        o \in {p \in [n : 0..CountTokens("Keyword(While)"),
                      k : 1..CountTokens("Keyword(While)")] :
                 p.k <= Cardinality(BranchLines(out, "beq", EWhile(p.n)))}}

\* begin label on the guard's first line, guard, cmpw, beq, body, jmp, and the
\* end label on the line after the jump.
WhileInOrder(out, s) ==
    /\ IsMovwSpR1(out[s.s])
    /\ s.s = GuardStart(out, s.b)
    /\ out[s.b - 1].op = "cmpw" /\ out[s.b - 1].args[1] = "#0"
    /\ s.s < s.b - 1 /\ s.b < s.j
    /\ s.e = s.j + 1

\* s2 begins after s1 began: it lies behind s1 or in its body, with another
\* label number.
WhileNested(s1, s2) ==
    s1.s < s2.s => \/ s1.e <= s2.s
                   \/ s1.b < s2.s /\ s2.e <= s1.j /\ s1.n # s2.n

WhileCodeOf(out) ==
    /\ \A n \in 0..CountTokens("Keyword(While)") :
          /\ Cardinality(LabelLines(out, BWhile(n)))
                = Cardinality(BranchLines(out, "beq", EWhile(n)))
          /\ Cardinality(BranchLines(out, "jmp", BWhile(n)))
                = Cardinality(BranchLines(out, "beq", EWhile(n)))
          /\ Cardinality(LabelLines(out, EWhile(n)))
                = Cardinality(BranchLines(out, "beq", EWhile(n)))
    /\ Cardinality(WhileStatements(out)) = CountTokens("Keyword(While)")
    /\ \A s \in WhileStatements(out) : WhileInOrder(out, s)
    /\ \A s1, s2 \in WhileStatements(out) : WhileNested(s1, s2)

\* C35: in the output of a successful compilation every while statement with
\* label number n has $b_while{n} on the `movw SP R1` that begins its guard,
\* then the guard code, `cmpw #0 home`, `beq $e_while{n}`, the body and
\* `jmp $b_while{n}`, and $e_while{n} on the line emitted next after the jump.
C35_WhileCode == par_pc = "success" => WhileCodeOf(ParEmitted)

(***************************************************************************)
(* Claims about missing statements.                                        *)
(***************************************************************************)

\* C36: parse never returns Success for a program in which `then` or `do` is
\* directly followed by `end`, also when the if or while is the first
\* statement of a compound statement.
C36_MissingStatementIsFatal == par_pc = "success" => MissingStatementAt = {}

(***************************************************************************)
(* Claims about the code of mod.                                           *)
(***************************************************************************)

\* The run is `e1 mod e2` or `e1 mod e2 mod e3` over Int operands.
ModRun ==
    /\ Len(ep_tokens) >= 3
    /\ \A i \in 1..Len(ep_tokens) :
          IF i % 2 = 0 THEN ep_tokens[i].token_type = "Keyword(Mod)"
          ELSE ep_tokens[i].token_type \in {"Identifier", "Number"}
               /\ AtomType(ep_table0, unwrap(from_token(ep_tokens[i]))) = Some("Int")

\* C37: after the evaluator succeeds on `e1 mod e2`, with e1 a declared
\* variable, a literal or the temporary of an earlier reduction, the machine
\* that ran the emitted commands holds e1 - (e1 div e2) * e2 in the home of
\* the result.
C37_ModValue ==
    (ep_pc = "ok" /\ ModRun /\ is_some(EpValue)) =>
        /\ EpExec.ok
        /\ Read(EpExec.mem, location(unwrap(ep_result))) = EpValue

(***************************************************************************)
(* Claims about the entry of a procedure.                                  *)
(***************************************************************************)

\* The names of the procedures the program declares.
ProcedureNames ==
    {par_tokens[i + 1].lexeme :
        i \in {j \in 1..(Len(par_tokens) - 1) : par_tokens[j].token_type = "Keyword(Proc)"}}

IsRet(cmd) == cmd.op = "ret\n:"

\* The first `ret` at or below line i, the one that control entering at line
\* i and running through the block comes to.
FirstRetFrom(out, i) ==
    CHOOSE j \in i..Len(out) : IsRet(out[j]) /\ \A k \in i..(j - 1) : ~IsRet(out[k])

\* The lines from the entry of name to its first ret belong to name alone.
EntryReachesOwnRet(out, name) ==
    /\ LabelLines(out, "$" \o name) # {}
    /\ \A i \in LabelLines(out, "$" \o name) :
          /\ \E j \in i..Len(out) : IsRet(out[j])
          /\ out[FirstRetFrom(out, i)].args = <<"end", name \o "\n">>
          /\ \A other \in ProcedureNames \ {name} :
                \A k \in i..FirstRetFrom(out, i) : k \notin LabelLines(out, "$" \o other)

\* C38: in the output of a successful compilation control that enters at the
\* line labelled $P comes to P's own `ret` without passing a line of another
\* procedure: the entry label is not on a line that falls through into the
\* code of a procedure nested in P.
C38_EntryReachesOwnRet ==
    par_pc = "success" => \A name \in ProcedureNames : EntryReachesOwnRet(ParEmitted, name)
====
